---- MODULE Spec2Model ----
(***************************************************************************)
(* A model of the Atlantis project command builder                         *)
(* (DefaultProjectCommandBuilder) and of the working-directory manager     *)
(* (FileWorkspace) it drives.                                              *)
(*                                                                         *)
(* Build calls run concurrently (one per webhook goroutine); each external *)
(* call they make (a lock operation, a file-system call, a git subprocess, *)
(* a VCS call) is one step, so calls interleave exactly at those points.   *)
(* Delete and DeleteForWorkspace take no workspace lock; they are followed *)
(* over the data dirs they can meet (SpecFS).  The git remote is the       *)
(* environment: a clone leaves HEAD at the tip of the default branch, a    *)
(* checkout of the PR's branch leaves HEAD at the tip of that branch,      *)
(* whatever commit the webhook event carried.                              *)
(***************************************************************************)
EXTENDS Integers, Sequences, FiniteSets, TLC

(* ------------------------------ bounds -------------------------------- *)


\* Commits are 1..MaxCommit; 0 stands for a HEAD that does not resolve.
MaxCommit == 2

\* Working directories a data dir holds when the server starts.
MaxDirs == 3

\* The Build calls of one behaviour, each in the goroutine of its webhook.
Calls == {1, 2}

Commits == 1..MaxCommit

Heads == 0..MaxCommit

\* Repo.FullName, as the path elements filepath.Join sees ("owner/name").
Repos == {<<"owner", "infra">>, <<"owner", "app">>}

\* PullRequest.Num
PullNums == {1, 2}

DefaultWorkspace == "default"

\* Workspace names (CommentCommand.Workspace): single path elements.
Workspaces == {DefaultWorkspace, "staging"}

\* CommentCommand.ProjectName; "" is the unset name.
ProjectNames == {"", "proj1", "missing"}

\* CommentCommand.RepoRelDir
RelDirs == {".", "mod"}

(* ------------------------------- paths -------------------------------- *)

\* FileWorkspace.DataDir
DataDir == <<"data">>

workingDirPrefix == "repos"

\* strconv.Itoa on the pull numbers in use: the decimal numeral.
Itoa(n) == CASE n = 1 -> "1" [] n = 2 -> "2" [] n = 3 -> "3" [] OTHER -> "0"

\* filepath.Clean on a list of path elements: "" and "." are dropped, ".."
\* removes the element before it.
RECURSIVE Clean(_)
Clean(elems) ==
  IF elems = <<>> THEN <<>>
  ELSE LET rest == Clean(SubSeq(elems, 1, Len(elems) - 1))
           last == elems[Len(elems)]
       IN  IF last = "" \/ last = "." THEN rest
           ELSE IF last = ".." /\ rest # <<>> THEN SubSeq(rest, 1, Len(rest) - 1)
           ELSE Append(rest, last)

\* filepath.Join: concatenate the elements, then Clean.
Join(a, b) == Clean(a \o b)

repoPullDir(r, n) == Join(DataDir, <<workingDirPrefix>> \o r \o <<Itoa(n)>>)

\* cloneDir that leaves the workspace out of the path.
cloneDirWithoutWorkspace(r, n, w) == repoPullDir(r, n)

cloneDir(r, n, w) == Join(repoPullDir(r, n), <<w>>)

IsPrefix(p, q) == Len(p) <= Len(q) /\ SubSeq(q, 1, Len(p)) = p

(* ------------------------------- state -------------------------------- *)

VARIABLES
  allowRepoConfig,  \* DefaultProjectCommandBuilder.AllowRepoConfig
  locks,            \* WorkingDirLocker: the keys held
  disk,             \* existing working directories: path -> HEAD
  call,             \* the Build calls: parameters, position, locals, result
  lastClone,        \* history: the last outcome of Clone, by directory
  lastDelete,       \* history: the last Delete/DeleteForWorkspace call
  built,            \* buildProjectCommandCtx applied: arguments and result
  req,              \* EventsController: the webhook request being handled
  twin,             \* the same event as handled outside testing mode
  runnerCall        \* DefaultCommandRunner: the invocation being run

vars ==
  <<allowRepoConfig, locks, disk, call, lastClone, lastDelete, built, req, twin,
    runnerCall>>

\* The variables of the project command builder and its working dirs.
builderVars == <<locks, disk, call, lastClone, lastDelete>>

(* --------------------------- the file system -------------------------- *)

\* os.Stat(path) succeeds
Exists(fs, path) == path \in DOMAIN fs

\* git rev-parse HEAD in path: 0 when it fails (no directory, no commit).
RevParseHead(fs, path) == IF Exists(fs, path) THEN fs[path] ELSE 0

\* os.RemoveAll(path): path and everything below it is gone.
RemoveAll(fs, path) ==
  [d \in {e \in DOMAIN fs : ~IsPrefix(path, e)} |-> fs[d]]

\* os.RemoveAll returns nil when nothing is there; it can only fail while
\* removing something.
RemoveAllResults(fs, path) ==
  IF \E e \in DOMAIN fs : IsPrefix(path, e) THEN {"ok", "err"} ELSE {"ok"}

\* The directory at path holds a work tree whose HEAD is h.
WithDir(fs, path, h) ==
  [d \in DOMAIN fs \cup {path} |-> IF d = path THEN h ELSE fs[d]]

\* os.MkdirAll(path): creates the (empty) directory unless it is there.
MkdirAll(fs, path) == IF Exists(fs, path) THEN fs ELSE WithDir(fs, path, 0)

(* ------------------------ repo-local configuration -------------------- *)

\* A pointer is a sequence: <<>> is nil, <<v>> points to v.
Nil == <<>>

Ptr(v) == <<v>>

\* The projects of the atlantis.yaml the repository holds (valid.Config as
\* yaml.ParserValidator.ReadConfig returns it): two named projects that
\* share a dir and workspace, and an unnamed one in another workspace.
RepoConfig ==
  << [Name |-> "proj1", Dir |-> ".", Workspace |-> "default"],
     [Name |-> "proj2", Dir |-> ".", Workspace |-> "default"],
     [Name |-> "", Dir |-> "mod", Workspace |-> "staging"] >>

\* valid.Config.FindProjectByName: a pointer to the project of that name.
FindProjectByName(cfg, name) ==
  LET hits == SelectSeq(cfg, LAMBDA p : p.Name = name)
  IN  IF hits = <<>> THEN Nil ELSE Ptr(hits[1])

\* valid.Config.FindProjectsByDirWorkspace: the projects of that dir and
\* workspace, in the order of the file.
FindProjectsByDirWorkspace(cfg, dir, workspace) ==
  SelectSeq(cfg, LAMBDA p : p.Dir = dir /\ p.Workspace = workspace)

\* What ParserValidator.HasConfigFile(repoDir) can return to its caller:
\* an error, true or false.  What a work tree holds is the repository's
\* matter, not the builder's.
HasConfigFileResults == {"err", "yes", "no"}

GetCfgResult(proj, global, err, ops) ==
  [proj |-> proj, global |-> global, err |-> err, ops |-> ops]

\* getCfg on a builder whose AllowRepoConfig is allow; has is
\* HasConfigFile's result and readOK whether ReadConfig parses the file.
\* ops are the calls it made on the ParserValidator.
getCfgOf(allow, projectName, dir, workspace, has, readOK) ==
  IF has = "err"
    THEN GetCfgResult(Nil, Nil, "looking for atlantis.yaml", <<"HasConfigFile">>)
  ELSE IF has = "no"
    THEN IF projectName # ""
           THEN GetCfgResult(Nil, Nil, "cannot specify a project name", <<"HasConfigFile">>)
           ELSE GetCfgResult(Nil, Nil, "", <<"HasConfigFile">>)
  ELSE IF ~allow
    THEN GetCfgResult(Nil, Nil, "atlantis.yaml files not allowed", <<"HasConfigFile">>)
  ELSE IF ~readOK
    THEN GetCfgResult(Nil, Nil, "parsing atlantis.yaml", <<"HasConfigFile", "ReadConfig">>)
  ELSE IF projectName # ""
    THEN IF FindProjectByName(RepoConfig, projectName) = Nil
           THEN GetCfgResult(Nil, Nil, "no project with name", <<"HasConfigFile", "ReadConfig">>)
           ELSE GetCfgResult(FindProjectByName(RepoConfig, projectName), Ptr(RepoConfig), "",
                             <<"HasConfigFile", "ReadConfig">>)
  ELSE LET projCfgs == FindProjectsByDirWorkspace(RepoConfig, dir, workspace)
       IN  IF Len(projCfgs) = 0
             THEN GetCfgResult(Nil, Nil, "", <<"HasConfigFile", "ReadConfig">>)
           ELSE IF Len(projCfgs) > 1
             THEN GetCfgResult(Nil, Nil, "must specify project name", <<"HasConfigFile", "ReadConfig">>)
           ELSE GetCfgResult(Ptr(projCfgs[1]), Ptr(RepoConfig), "", <<"HasConfigFile", "ReadConfig">>)

\* getCfg that reads the config file whether or not the operator allows
\* repo-local configuration.
getCfgAllowingRepoConfig(projectName, dir, workspace, has, readOK) ==
  getCfgOf(TRUE, projectName, dir, workspace, has, readOK)

\* getCfg that returns the parsed config when no project matches the dir
\* and workspace.
getCfgKeepingGlobal(projectName, dir, workspace, has, readOK) ==
  IF /\ has = "yes" /\ allowRepoConfig /\ readOK /\ projectName = ""
     /\ Len(FindProjectsByDirWorkspace(RepoConfig, dir, workspace)) = 0
    THEN GetCfgResult(Nil, Ptr(RepoConfig), "", <<"HasConfigFile", "ReadConfig">>)
    ELSE getCfgOf(allowRepoConfig, projectName, dir, workspace, has, readOK)

\* getCfg that looks at AllowRepoConfig before it looks for the file.
getCfgCheckingAllowFirst(projectName, dir, workspace, has, readOK) ==
  IF has # "err" /\ ~allowRepoConfig
    THEN GetCfgResult(Nil, Nil, "atlantis.yaml files not allowed", <<"HasConfigFile">>)
    ELSE getCfgOf(allowRepoConfig, projectName, dir, workspace, has, readOK)

\* DefaultProjectCommandBuilder.getCfg
getCfg(projectName, dir, workspace, has, readOK) ==
  getCfgOf(allowRepoConfig, projectName, dir, workspace, has, readOK)

\* models.ProjectCommandContext (the fields the builder decides)
ProjectCommandContext(dir, workspace, projCfg, globalCfg) ==
  [RepoRelDir |-> dir, Workspace |-> workspace,
   ProjectConfig |-> projCfg, GlobalConfig |-> globalCfg]

\* ProjectFinder.DetermineProjects: the paths of the modified projects.
ModifiedProjects == {<<>>, <<".">>, <<".", "mod">>, <<"mod", ".">>}

\* ProjectFinder.DetermineProjectsViaConfig: projects of the config, in the
\* order the finder returns them.
MatchingProjects ==
  {<<>>, <<RepoConfig[1]>>, <<RepoConfig[1], RepoConfig[3]>>,
   <<RepoConfig[3], RepoConfig[1]>>}

(* ------------------------------ Build calls --------------------------- *)

\* A call that has not started.  pc names the operation the call makes
\* next; err = "" is a nil error; ops lists the operations made so far.
\* Of Clone the call keeps what it saw: existed (os.Stat found cloneDir),
\* currCommit (what rev-parse printed, 0 when it failed or did not run),
\* cloned (Clone returned the directory), and prev, the outcome of the
\* Clone call before it on the same directory; found is what the project
\* finder returned.
IdleCall ==
  [kind |-> "none", repo |-> <<>>, pull |-> 0, head |-> 0, workspace |-> "",
   pc |-> "idle", acquired |-> FALSE, released |-> 0, dir |-> <<>>,
   existed |-> FALSE, currCommit |-> 0, cloned |-> FALSE, prev |-> <<>>,
   hasConfigFile |-> FALSE, found |-> <<>>, err |-> "", ctxs |-> <<>>, ops |-> <<>>]

NewCall(kind, r, n, w) ==
  [IdleCall EXCEPT !.kind = kind, !.repo = r, !.pull = n, !.workspace = w]

\* The key of the workspace lock a call asks for.
Key(cl) == <<cl.repo, cl.workspace, cl.pull>>

\* WorkingDirLocker.TryLock fails when the key is held.
TryLockFails(key) == key \in locks

\* Calls start in the order of their numbers.
CanStart(c) ==
  /\ call[c].pc = "idle"
  /\ \A d \in Calls : d < c => call[d].pc # "idle"

\* The head of every Build function: TryLock, return its error, otherwise
\* defer the unlock and go on with the operation next.
Enter(c, cl, next) ==
  IF TryLockFails(Key(cl))
    THEN /\ call' = [call EXCEPT ![c] =
                       [cl EXCEPT !.pc = "done", !.err = "workspace locked",
                                  !.ops = <<"TryLock">>]]
         /\ UNCHANGED locks
    ELSE /\ locks' = locks \cup {Key(cl)}
         /\ call' = [call EXCEPT ![c] =
                       [cl EXCEPT !.pc = next, !.acquired = TRUE,
                                  !.ops = <<"TryLock">>]]

\* Return with the unlock written at the end of the function instead of
\* deferred: an error return leaves the key held.
ReturnUnlockingOnSuccess(c, cl, err, ctxs, ops) ==
  /\ call' = [call EXCEPT ![c] =
                [cl EXCEPT !.pc = "done", !.err = err, !.ctxs = ctxs,
                           !.ops = @ \o ops \o (IF err = "" THEN <<"Unlock">> ELSE <<>>),
                           !.released = IF err = "" THEN @ + 1 ELSE @]]
  /\ locks' = IF err = "" THEN locks \ {Key(cl)} ELSE locks

\* A Build function returns (err, ctxs) after the operations ops, its
\* locals being cl: the deferred unlockFn runs and releases the key.
Return(c, cl, err, ctxs, ops) ==
  /\ call' = [call EXCEPT ![c] =
                [cl EXCEPT !.pc = "done", !.err = err, !.ctxs = ctxs,
                           !.ops = @ \o ops \o <<"Unlock">>,
                           !.released = @ + 1]]
  /\ locks' = locks \ {Key(cl)}

\* The call goes on with the operation next, having made the operations
\* ops, its locals being cl.
Goto(c, cl, next, ops) ==
  /\ call' = [call EXCEPT ![c] = [cl EXCEPT !.pc = next, !.ops = @ \o ops]]
  /\ UNCHANGED locks

\* BuildAutoplanCommands that locks and clones the workspace "staging".
BuildAutoplanCommandsInStaging(c, r, n) ==
  /\ CanStart(c)
  /\ Enter(c, NewCall("autoplan", r, n, "staging"), "Clone")
  /\ UNCHANGED <<built, req, twin, runnerCall, allowRepoConfig, disk, lastClone, lastDelete>>

BuildAutoplanCommands(c, r, n) ==
  /\ CanStart(c)
  /\ Enter(c, NewCall("autoplan", r, n, DefaultWorkspace), "Clone")
  /\ UNCHANGED <<built, req, twin, runnerCall, allowRepoConfig, disk, lastClone, lastDelete>>

\* BuildPlanCommand without the check of TryLock's error: it goes on to
\* Clone whether or not the key was free.
BuildPlanCommandIgnoringLock(c, r, n, w) ==
  /\ CanStart(c)
  /\ locks' = locks \cup {<<r, w, n>>}
  /\ call' = [call EXCEPT ![c] =
                [NewCall("plan", r, n, w) EXCEPT !.pc = "Clone", !.acquired = TRUE,
                                                 !.ops = <<"TryLock">>]]
  /\ UNCHANGED <<built, req, twin, runnerCall, allowRepoConfig, disk, lastClone, lastDelete>>

BuildPlanCommand(c, r, n, w) ==
  /\ CanStart(c)
  /\ Enter(c, NewCall("plan", r, n, w), "Clone")
  /\ UNCHANGED <<built, req, twin, runnerCall, allowRepoConfig, disk, lastClone, lastDelete>>

\* BuildApplyCommand that clones as BuildPlanCommand does.
BuildApplyCommandCloning(c, r, n, w) ==
  /\ CanStart(c)
  /\ Enter(c, NewCall("apply", r, n, w), "Clone")
  /\ UNCHANGED <<built, req, twin, runnerCall, allowRepoConfig, disk, lastClone, lastDelete>>

BuildApplyCommand(c, r, n, w) ==
  /\ CanStart(c)
  /\ Enter(c, NewCall("apply", r, n, w), "GetWorkingDir")
  /\ UNCHANGED <<built, req, twin, runnerCall, allowRepoConfig, disk, lastClone, lastDelete>>

(* -------------------------- FileWorkspace.Clone ----------------------- *)

\* Where a Build call goes on when Clone has returned the directory.
AfterClone(kind) == IF kind = "autoplan" THEN "HasConfigFile" ELSE "getCfg"

\* The history of Clone: its last outcome on the directory path.
Logged(log, path, h, result) ==
  [d \in DOMAIN log \cup {path} |->
     IF d = path THEN [head |-> h, result |-> result] ELSE log[d]]

\* Clone returns cloneDir, nil.
CloneReturns(c, cl, ops) ==
  /\ Goto(c, [cl EXCEPT !.cloned = TRUE], AfterClone(cl.kind), ops)
  /\ lastClone' = Logged(lastClone, cl.dir, cl.head, "returned")

\* Clone returns an error from the operation op of forceClone, and so does
\* the Build function.
CloneFails(c, err, op) ==
  /\ Return(c, call[c], err, <<>>, <<op>>)
  /\ lastClone' = Logged(lastClone, call[c].dir, call[c].head, err)

\* Clone that reuses any directory whose HEAD resolves.
AtSomeCommit(currCommit, headCommit) == currCommit # 0

\* rev-parse succeeded and printed p.HeadCommit.
AtRightCommit(currCommit, headCommit) ==
  currCommit # 0 /\ currCommit = headCommit

\* Clone, up to os.Stat(cloneDir).  p.HeadCommit (h) is read by Clone first.
Clone(c) ==
  /\ call[c].pc = "Clone"
  /\ \E h \in Commits :
       LET d == cloneDir(call[c].repo, call[c].pull, call[c].workspace)
       IN  Goto(c, [call[c] EXCEPT
                      !.head = h, !.dir = d, !.existed = Exists(disk, d),
                      !.prev = IF d \in DOMAIN lastClone THEN <<lastClone[d]>> ELSE <<>>],
                IF Exists(disk, d) THEN "revParse" ELSE "RemoveAll", <<"Stat">>)
  /\ UNCHANGED <<built, req, twin, runnerCall, allowRepoConfig, disk, lastClone, lastDelete>>

\* Clone: git rev-parse HEAD in the existing directory.
revParse(c) ==
  /\ call[c].pc = "revParse"
  /\ LET cl == [call[c] EXCEPT !.currCommit = RevParseHead(disk, call[c].dir)]
     IN  IF AtRightCommit(cl.currCommit, cl.head)
           THEN CloneReturns(c, cl, <<"RevParse">>)
           ELSE Goto(c, cl, "RemoveAll", <<"RevParse">>) /\ UNCHANGED lastClone
  /\ UNCHANGED <<built, req, twin, runnerCall, allowRepoConfig, disk, lastDelete>>

\* forceClone: os.RemoveAll(cloneDir)
forceClone(c) ==
  /\ call[c].pc = "RemoveAll"
  /\ \E res \in RemoveAllResults(disk, call[c].dir) :
       IF res = "ok"
         THEN /\ disk' = RemoveAll(disk, call[c].dir)
              /\ Goto(c, call[c], "MkdirAll", <<"RemoveAll">>)
              /\ UNCHANGED lastClone
         ELSE /\ CloneFails(c, "deleting dir before cloning", "RemoveAll")
              /\ UNCHANGED disk
  /\ UNCHANGED <<built, req, twin, runnerCall, allowRepoConfig, lastDelete>>

\* forceClone: os.MkdirAll(cloneDir, 0700)
forceCloneMkdirAll(c) ==
  /\ call[c].pc = "MkdirAll"
  /\ \E ok \in BOOLEAN :
       IF ok
         THEN /\ disk' = MkdirAll(disk, call[c].dir)
              /\ Goto(c, call[c], "gitClone", <<"MkdirAll">>)
              /\ UNCHANGED lastClone
         ELSE /\ CloneFails(c, "creating new workspace", "MkdirAll")
              /\ UNCHANGED disk
  /\ UNCHANGED <<built, req, twin, runnerCall, allowRepoConfig, lastDelete>>

\* forceClone: git clone cloneURL cloneDir.  It needs an empty or missing
\* target; HEAD becomes the tip h of the remote's default branch (0: the
\* remote has no commit).
forceCloneGitClone(c) ==
  /\ call[c].pc = "gitClone"
  /\ \/ /\ RevParseHead(disk, call[c].dir) = 0
        /\ \E h \in Heads : disk' = WithDir(disk, call[c].dir, h)
        /\ Goto(c, call[c], "gitCheckout", <<"GitClone">>)
        /\ UNCHANGED lastClone
     \/ /\ CloneFails(c, "cloning", "GitClone")
        /\ UNCHANGED disk
  /\ UNCHANGED <<built, req, twin, runnerCall, allowRepoConfig, lastDelete>>

\* forceClone that removes the directory again when the checkout fails.
forceCloneCheckoutCleaningUp(c) ==
  /\ call[c].pc = "gitCheckout"
  /\ \/ /\ RevParseHead(disk, call[c].dir) # 0
        /\ \E h \in Commits : disk' = WithDir(disk, call[c].dir, h)
        /\ CloneReturns(c, call[c], <<"GitCheckout">>)
     \/ /\ CloneFails(c, "checking out branch", "GitCheckout")
        /\ disk' = RemoveAll(disk, call[c].dir)
  /\ UNCHANGED <<built, req, twin, runnerCall, allowRepoConfig, lastDelete>>

\* forceClone: git checkout p.Branch in cloneDir.  HEAD becomes the tip h
\* of the branch on the remote that was cloned.
forceCloneCheckout(c) ==
  /\ call[c].pc = "gitCheckout"
  /\ \/ /\ RevParseHead(disk, call[c].dir) # 0
        /\ \E h \in Commits : disk' = WithDir(disk, call[c].dir, h)
        /\ CloneReturns(c, call[c], <<"GitCheckout">>)
     \/ /\ CloneFails(c, "checking out branch", "GitCheckout")
        /\ UNCHANGED disk
  /\ UNCHANGED <<built, req, twin, runnerCall, allowRepoConfig, lastDelete>>

(* ----------------- BuildApplyCommand: GetWorkingDir ------------------- *)

\* FileWorkspace.GetWorkingDir, as BuildApplyCommand calls it.
GetWorkingDir(c) ==
  /\ call[c].pc = "GetWorkingDir"
  /\ LET d == cloneDir(call[c].repo, call[c].pull, call[c].workspace)
     IN  IF Exists(disk, d)
           THEN Goto(c, [call[c] EXCEPT !.dir = d, !.existed = TRUE],
                     "getCfg", <<"GetWorkingDir">>)
           ELSE Return(c, call[c], "checking if workspace exists", <<>>,
                       <<"GetWorkingDir">>)
  /\ UNCHANGED <<built, req, twin, runnerCall, allowRepoConfig, disk, lastClone, lastDelete>>

(* ---------------------- buildProjectCommandCtx ------------------------ *)

\* buildProjectCommandCtx that keeps the dir and workspace of the comment.
ProjectCtxsOfComment(g, relDir, workspace) ==
  IF g.err # "" THEN <<>>
  ELSE <<ProjectCommandContext(relDir, workspace, g.proj, g.global)>>

\* buildProjectCommandCtx's result for getCfg's result g.
ProjectCtxs(g, relDir, workspace) ==
  IF g.err # "" THEN <<>>
  ELSE IF g.proj # Nil
    THEN <<ProjectCommandContext(g.proj[1].Dir, g.proj[1].Workspace, g.proj, g.global)>>
  ELSE <<ProjectCommandContext(relDir, workspace, g.proj, g.global)>>

\* BuildPlanCommand and BuildApplyCommand end with buildProjectCommandCtx.
\* cmd.ProjectName (name) and cmd.RepoRelDir (dir) are read here first.
buildProjectCommandCtx(c) ==
  /\ call[c].pc = "getCfg"
  /\ \E name \in ProjectNames, dir \in RelDirs, readOK \in BOOLEAN :
       \E has \in HasConfigFileResults :
         LET g == getCfg(name, dir, call[c].workspace, has, readOK)
         IN  Return(c, [call[c] EXCEPT !.hasConfigFile = (has = "yes")],
                    g.err, ProjectCtxs(g, dir, call[c].workspace), g.ops)
  /\ UNCHANGED <<built, req, twin, runnerCall, allowRepoConfig, disk, lastClone, lastDelete>>

(* ------------------ BuildAutoplanCommands, after Clone ---------------- *)

\* HasConfigFile, the AllowRepoConfig check and ReadConfig.
AutoplanReadConfig(c) ==
  /\ call[c].pc = "HasConfigFile"
  /\ \E has \in HasConfigFileResults, readOK \in BOOLEAN :
       LET cl == [call[c] EXCEPT !.hasConfigFile = (has = "yes")]
       IN  IF has = "err"
             THEN Return(c, cl, "looking for atlantis.yaml", <<>>, <<"HasConfigFile">>)
           ELSE IF has = "no"
             THEN Goto(c, cl, "GetModifiedFiles", <<"HasConfigFile">>)
           ELSE IF ~allowRepoConfig
             THEN Return(c, cl, "atlantis.yaml files not allowed", <<>>,
                         <<"HasConfigFile">>)
           ELSE IF ~readOK
             THEN Return(c, cl, "parsing atlantis.yaml", <<>>,
                         <<"HasConfigFile", "ReadConfig">>)
           ELSE Goto(c, cl, "GetModifiedFiles", <<"HasConfigFile", "ReadConfig">>)
  /\ UNCHANGED <<built, req, twin, runnerCall, allowRepoConfig, disk, lastClone, lastDelete>>

\* VCSClient.GetModifiedFiles
AutoplanGetModifiedFiles(c) ==
  /\ call[c].pc = "GetModifiedFiles"
  /\ \/ Goto(c, call[c], "DetermineProjects", <<"GetModifiedFiles">>)
     \/ Return(c, call[c], "getting modified files", <<>>, <<"GetModifiedFiles">>)
  /\ UNCHANGED <<built, req, twin, runnerCall, allowRepoConfig, disk, lastClone, lastDelete>>

\* One context per modified project, when there is no config file.
ModifiedProjectCtxs(mps) ==
  [i \in 1..Len(mps) |->
     ProjectCommandContext(mps[i], DefaultWorkspace, Nil, Nil)]

\* The contexts of the matching projects when every ProjectConfig is the
\* address of one loop variable: all point to the last project.
MatchingProjectCtxsAliased(mps) ==
  [i \in 1..Len(mps) |->
     ProjectCommandContext(mps[i].Dir, mps[i].Workspace, Ptr(mps[Len(mps)]),
                           Ptr(RepoConfig))]

\* One context per matching project of the config file.
MatchingProjectCtxs(mps) ==
  [i \in 1..Len(mps) |->
     ProjectCommandContext(mps[i].Dir, mps[i].Workspace, Ptr(mps[i]), Ptr(RepoConfig))]

\* DetermineProjects or DetermineProjectsViaConfig, and the contexts.
AutoplanDetermineProjects(c) ==
  /\ call[c].pc = "DetermineProjects"
  /\ IF ~call[c].hasConfigFile
       THEN \E mps \in ModifiedProjects :
              Return(c, [call[c] EXCEPT !.found = mps], "", ModifiedProjectCtxs(mps),
                     <<"DetermineProjects">>)
       ELSE \/ \E mps \in MatchingProjects :
                 Return(c, [call[c] EXCEPT !.found = mps], "", MatchingProjectCtxs(mps),
                        <<"DetermineProjectsViaConfig">>)
            \/ Return(c, call[c], "determining projects", <<>>,
                      <<"DetermineProjectsViaConfig">>)
  /\ UNCHANGED <<built, req, twin, runnerCall, allowRepoConfig, disk, lastClone, lastDelete>>

(* ------------------- Delete and DeleteForWorkspace -------------------- *)

NoDelete ==
  [op |-> "none", repo |-> <<>>, pull |-> 0, workspace |-> "", ok |-> FALSE,
   removed |-> {}, again |-> FALSE]

\* os.Remove(path) fails when nothing is at path.
RemoveResults(fs, path) ==
  IF \E e \in DOMAIN fs : IsPrefix(path, e) THEN {"ok", "err"} ELSE {"err"}

\* The operation op removes path with one of the outcomes results: what it
\* does to the disk and what the history keeps of it (the directories
\* removed; again: the call repeats the successful call before it on an
\* unchanged tree).
RemoveCall(op, r, n, w, path, results) ==
  \E res \in results :
    /\ disk' = IF res = "ok" THEN RemoveAll(disk, path) ELSE disk
    /\ lastDelete' =
         [op |-> op, repo |-> r, pull |-> n, workspace |-> w, ok |-> (res = "ok"),
          removed |-> IF res = "ok" THEN {d \in DOMAIN disk : IsPrefix(path, d)} ELSE {},
          again |-> /\ lastDelete.op = op /\ lastDelete.repo = r
                    /\ lastDelete.pull = n /\ lastDelete.workspace = w
                    /\ lastDelete.ok
                    /\ \A d \in DOMAIN disk : ~IsPrefix(path, d)]

\* os.RemoveAll(path) called as operation op.
RemoveAllCall(op, r, n, w, path) ==
  RemoveCall(op, r, n, w, path, RemoveAllResults(disk, path))

\* Delete by os.Remove: an error when the pull request has no directory.
DeleteByRemove(r, n) ==
  /\ RemoveCall("Delete", r, n, "", repoPullDir(r, n),
                RemoveResults(disk, repoPullDir(r, n)))
  /\ UNCHANGED <<built, req, twin, runnerCall, allowRepoConfig, locks, call, lastClone>>

\* Delete that removes the directories of every pull request of the
\* repository.
DeleteRepoDir(r, n) ==
  /\ RemoveAllCall("Delete", r, n, "", Join(DataDir, <<workingDirPrefix>> \o r))
  /\ UNCHANGED <<built, req, twin, runnerCall, allowRepoConfig, locks, call, lastClone>>

\* FileWorkspace.Delete
Delete(r, n) ==
  /\ RemoveAllCall("Delete", r, n, "", repoPullDir(r, n))
  /\ UNCHANGED <<built, req, twin, runnerCall, allowRepoConfig, locks, call, lastClone>>

\* FileWorkspace.DeleteForWorkspace
DeleteForWorkspace(r, n, w) ==
  /\ RemoveAllCall("DeleteForWorkspace", r, n, w, cloneDir(r, n, w))
  /\ UNCHANGED <<built, req, twin, runnerCall, allowRepoConfig, locks, call, lastClone>>

(* --------------- buildProjectCommandCtx on its arguments -------------- *)

\* No application yet.
NotBuilt ==
  [projectName |-> "", dir |-> "", workspace |-> "", has |-> "none",
   readOK |-> FALSE, cfg |-> GetCfgResult(Nil, Nil, "", <<>>), ctxs |-> <<>>]

\* buildProjectCommandCtx(ctx, cmd, repoDir) for a command with the given
\* project name, dir and workspace, on a repoDir where HasConfigFile
\* returns has and ReadConfig parses or not: what getCfg returned and the
\* context returned (none with an error).
BuildCtx(projectName, dir, workspace, has, readOK) ==
  /\ LET g == getCfg(projectName, dir, workspace, has, readOK)
     IN  built' = [projectName |-> projectName, dir |-> dir, workspace |-> workspace,
                   has |-> has, readOK |-> readOK, cfg |-> g,
                   ctxs |-> ProjectCtxs(g, dir, workspace)]
  /\ UNCHANGED <<req, twin, runnerCall, allowRepoConfig>>
  /\ UNCHANGED builderVars

(* --------------------------- EventsController ------------------------- *)

\* net/http status codes
StatusOK == 200

StatusBadRequest == 400

StatusForbidden == 403

StatusInternalServerError == 500

\* models.VCSHostType
VCSHosts == {"Github", "Gitlab"}

OpenPullEvent == "opened"

UpdatedPullEvent == "updated"

ClosedPullEvent == "closed"

OtherPullEvent == "other"

\* The handling of one webhook request by a controller whose TestingMode
\* and SupportedVCSHosts are given.  pc is the function that runs next;
\* status is the response status (0: nothing written yet), body the lines
\* written to the response; log lists the calls made, in order; reqid is
\* the request ID of the logger the request is handled with; host,
\* valid, event, parsed, action, eventType, ignore, response, whitelisted
\* and cleaned keep what the handler learnt of the request ("?": not looked
\* at); run is the CommandRunner function invoked, args the expressions it
\* is passed, and runner the state of the invocation.
NewRequest(testingMode, supported) ==
  [TestingMode |-> testingMode, SupportedVCSHosts |-> supported, pc |-> "Post",
   githubHeader |-> FALSE, gitlabHeader |-> FALSE, reqid |-> <<>>,
   host |-> "?", valid |-> "?",
   event |-> "?", parsed |-> "?", action |-> "?", eventType |-> "?",
   ignore |-> "?", response |-> "?", whitelisted |-> "?", cleaned |-> "?",
   status |-> 0, body |-> <<>>, log |-> <<>>, run |-> "", args |-> <<>>,
   runner |-> "none"]

\* No request yet.
NoRequest == [NewRequest(FALSE, {}) EXCEPT !.pc = "none"]

\* The handler has made the call op.
Called(r, op) == [r EXCEPT !.log = Append(@, op)]

\* http.ResponseWriter.WriteHeader(code): the first status written stays.
WriteHeader(r, code) ==
  [r EXCEPT !.status = IF @ = 0 THEN code ELSE @, !.log = Append(@, "WriteHeader")]

\* fmt.Fprintln(w, msg): a write without a status written before sends 200.
Fprintln(r, msg) ==
  [r EXCEPT !.status = IF @ = 0 THEN StatusOK ELSE @, !.body = Append(@, msg),
            !.log = Append(@, "Write")]

\* EventsController.respond
respond(r, code, msg) == Fprintln(WriteHeader(r, code), msg)

\* EventsController.supportsHost
supportsHost(r, h) == h \in r.SupportedVCSHosts

\* EventsController.commentNotWhitelisted; an error of CreateComment is
\* logged and changes nothing else.
commentNotWhitelisted(r) == Called(r, "CreateComment: not whitelisted")

\* The handler function returns to the server.
Returns(r) == req' = [r EXCEPT !.pc = "returned"]

\* The handler function calls (or tail-calls) the function next.
GoesOn(r, next) == req' = [r EXCEPT !.pc = next]

\* "yes" or "no"
YesNo(b) == IF b THEN "yes" ELSE "no"

\* The arguments of the go statement that runs the CommandRunner function.
GoArgs(name) ==
  IF name = "RunAutoplanCommand"
    THEN <<"logger", "baseRepo", "headRepo", "pull", "user">>
    ELSE <<"logger", "baseRepo", "maybeHeadRepo", "user", "pullNum",
           "parseResult.Command">>

\* The call of testing mode passing no head repo to RunCommentCommand.
CallArgsWithoutHeadRepo(name) ==
  IF name = "RunAutoplanCommand"
    THEN <<"logger", "baseRepo", "headRepo", "pull", "user">>
    ELSE <<"logger", "baseRepo", "nil", "user", "pullNum", "parseResult.Command">>

\* The arguments of the call that runs it in testing mode.
CallArgs(name) ==
  IF name = "RunAutoplanCommand"
    THEN <<"logger", "baseRepo", "headRepo", "pull", "user">>
    ELSE <<"logger", "baseRepo", "maybeHeadRepo", "user", "pullNum",
           "parseResult.Command">>

\* The handler invokes the CommandRunner function name: in a goroutine of
\* its own, or, in testing mode, as a call that has returned when the
\* handler goes on.
RunCommand(r, name) ==
  IF ~r.TestingMode
    THEN [Called(r, "go") EXCEPT
            !.run = name, !.args = GoArgs(name), !.runner = "spawned"]
    ELSE [Called(Called(r, name), "runner returns") EXCEPT
            !.run = name, !.args = CallArgs(name), !.runner = "returned"]

\* The goroutine of the CommandRunner function runs.
CommandRunner ==
  /\ req.runner = "spawned"
  /\ req' = [Called(Called(req, req.run), "runner returns") EXCEPT !.runner = "returned"]
  /\ UNCHANGED <<built, twin, runnerCall, allowRepoConfig>>
  /\ UNCHANGED builderVars

\* The actions of GitHub pull request events, "edited" for all the others.
GithubActions == {"opened", "synchronize", "closed", "edited"}

\* HandleGithubPullRequestEvent's switch on pullEvent.GetAction()
GithubEventType(action) ==
  CASE action = "opened" -> OpenPullEvent
    [] action = "synchronize" -> UpdatedPullEvent
    [] action = "closed" -> ClosedPullEvent
    [] OTHER -> OtherPullEvent

\* The actions of GitLab merge request events, "reopen" for all the others.
GitlabActions == {"open", "update", "merge", "close", "reopen"}

\* The action strings an event of either host may carry: the words of both
\* switches, the others, and the empty string of an event without action.
Actions == GithubActions \cup GitlabActions \cup {""}

\* The GitLab switch without "merge" in its closed case.
GitlabEventTypeOfCloseOnly(action) ==
  CASE action = "open" -> OpenPullEvent
    [] action = "update" -> UpdatedPullEvent
    [] action = "close" -> ClosedPullEvent
    [] OTHER -> OtherPullEvent

\* HandleGitlabMergeRequestEvent's switch on event.ObjectAttributes.Action
GitlabEventType(action) ==
  CASE action = "open" -> OpenPullEvent
    [] action = "update" -> UpdatedPullEvent
    [] action \in {"merge", "close"} -> ClosedPullEvent
    [] OTHER -> OtherPullEvent

\* What a validated payload is parsed into: a comment event, a pull (merge)
\* request event, or anything else.
EventKinds == {"comment", "pull", "unsupported"}

\* handleGithubPost going on to the event whatever Validate returned.
handleGithubPostIgnoringValidation ==
  /\ req.pc = "handleGithubPost"
  /\ \E valid \in BOOLEAN, event \in EventKinds :
       LET v == [Called(req, "Validate") EXCEPT !.valid = YesNo(valid)]
           r == [Called(v, "ParseWebHook") EXCEPT !.event = event]
       IN  IF event = "comment" THEN GoesOn(r, "HandleGithubCommentEvent")
           ELSE IF event = "pull" THEN GoesOn(r, "HandleGithubPullRequestEvent")
           ELSE Returns(respond(r, StatusOK, "Ignoring unsupported event"))
  /\ UNCHANGED <<built, twin, runnerCall, allowRepoConfig>>
  /\ UNCHANGED builderVars

\* EventsController.handleGithubPost
handleGithubPost ==
  /\ req.pc = "handleGithubPost"
  /\ \E valid \in BOOLEAN, event \in EventKinds :
       LET v == [Called(req, "Validate") EXCEPT !.valid = YesNo(valid)]
           r == [Called(v, "ParseWebHook") EXCEPT !.event = event]
       IN  IF ~valid
             THEN Returns(respond(v, StatusBadRequest, "request did not pass validation"))
           ELSE IF event = "comment" THEN GoesOn(r, "HandleGithubCommentEvent")
           ELSE IF event = "pull" THEN GoesOn(r, "HandleGithubPullRequestEvent")
           ELSE Returns(respond(r, StatusOK, "Ignoring unsupported event"))
  /\ UNCHANGED <<built, twin, runnerCall, allowRepoConfig>>
  /\ UNCHANGED builderVars

\* EventsController.HandleGithubCommentEvent
HandleGithubCommentEvent ==
  /\ req.pc = "HandleGithubCommentEvent"
  /\ \E action \in {"created", "edited"}, parsed \in BOOLEAN :
       LET a == [req EXCEPT !.action = action]
           r == [Called(a, "ParseGithubIssueCommentEvent") EXCEPT
                   !.parsed = YesNo(parsed)]
       IN  IF action # "created"
             THEN Returns(respond(a, StatusOK,
                    "Ignoring comment event since action was not created"))
           ELSE IF ~parsed
             THEN Returns(respond(r, StatusBadRequest, "Failed parsing event"))
           ELSE GoesOn(r, "handleCommentEvent")
  /\ UNCHANGED <<built, twin, runnerCall, allowRepoConfig>>
  /\ UNCHANGED builderVars

\* EventsController.HandleGithubPullRequestEvent
HandleGithubPullRequestEvent ==
  /\ req.pc = "HandleGithubPullRequestEvent"
  /\ \E parsed \in BOOLEAN, action \in Actions :
       LET r == [Called(req, "ParseGithubPullEvent") EXCEPT !.parsed = YesNo(parsed)]
       IN  IF ~parsed
             THEN Returns(respond(r, StatusBadRequest, "Error parsing pull data"))
             ELSE GoesOn([r EXCEPT !.action = action,
                                   !.eventType = GithubEventType(action)],
                         "handlePullRequestEvent")
  /\ UNCHANGED <<built, twin, runnerCall, allowRepoConfig>>
  /\ UNCHANGED builderVars

\* handlePullRequestEvent answering a Closed event without looking at the
\* error of CleanUpPull.
handlePullRequestEventIgnoringCleanError ==
  /\ req.pc = "handlePullRequestEvent"
  /\ \E whitelisted \in BOOLEAN, cleaned \in BOOLEAN :
       LET r == [Called(req, "IsWhitelisted") EXCEPT !.whitelisted = YesNo(whitelisted)]
       IN  IF ~whitelisted
             THEN Returns(respond(IF r.eventType = OpenPullEvent
                                    THEN commentNotWhitelisted(r) ELSE r,
                                  StatusForbidden,
                                  "Ignoring pull request event from non-whitelisted repo"))
           ELSE IF r.eventType \in {OpenPullEvent, UpdatedPullEvent}
             THEN Returns(RunCommand(Fprintln(r, "Processing..."), "RunAutoplanCommand"))
           ELSE IF r.eventType = ClosedPullEvent
             THEN LET c == [Called(r, "CleanUpPull") EXCEPT !.cleaned = YesNo(cleaned)]
                  IN  Returns(Fprintln(c, "Pull request cleaned successfully"))
           ELSE Returns(respond(r, StatusOK, "Ignoring non-actionable pull request event"))
  /\ UNCHANGED <<built, twin, runnerCall, allowRepoConfig>>
  /\ UNCHANGED builderVars

\* handlePullRequestEvent invoking the runner before it writes the response.
handlePullRequestEventRunningFirst ==
  /\ req.pc = "handlePullRequestEvent"
  /\ \E whitelisted \in BOOLEAN, cleaned \in BOOLEAN :
       LET r == [Called(req, "IsWhitelisted") EXCEPT !.whitelisted = YesNo(whitelisted)]
       IN  IF ~whitelisted
             THEN Returns(respond(IF r.eventType = OpenPullEvent
                                    THEN commentNotWhitelisted(r) ELSE r,
                                  StatusForbidden,
                                  "Ignoring pull request event from non-whitelisted repo"))
           ELSE IF r.eventType \in {OpenPullEvent, UpdatedPullEvent}
             THEN Returns(Fprintln(RunCommand(r, "RunAutoplanCommand"), "Processing..."))
           ELSE IF r.eventType = ClosedPullEvent
             THEN LET c == [Called(r, "CleanUpPull") EXCEPT !.cleaned = YesNo(cleaned)]
                  IN  IF ~cleaned
                        THEN Returns(respond(c, StatusInternalServerError,
                                             "Error cleaning pull request"))
                        ELSE Returns(Fprintln(c, "Pull request cleaned successfully"))
           ELSE Returns(respond(r, StatusOK, "Ignoring non-actionable pull request event"))
  /\ UNCHANGED <<built, twin, runnerCall, allowRepoConfig>>
  /\ UNCHANGED builderVars

\* handlePullRequestEvent commenting on every event of a repo that is not
\* whitelisted.
handlePullRequestEventCommentingAlways ==
  /\ req.pc = "handlePullRequestEvent"
  /\ \E whitelisted \in BOOLEAN, cleaned \in BOOLEAN :
       LET r == [Called(req, "IsWhitelisted") EXCEPT !.whitelisted = YesNo(whitelisted)]
       IN  IF ~whitelisted
             THEN Returns(respond(commentNotWhitelisted(r), StatusForbidden,
                                  "Ignoring pull request event from non-whitelisted repo"))
           ELSE IF r.eventType \in {OpenPullEvent, UpdatedPullEvent}
             THEN Returns(RunCommand(Fprintln(r, "Processing..."), "RunAutoplanCommand"))
           ELSE IF r.eventType = ClosedPullEvent
             THEN LET c == [Called(r, "CleanUpPull") EXCEPT !.cleaned = YesNo(cleaned)]
                  IN  IF ~cleaned
                        THEN Returns(respond(c, StatusInternalServerError,
                                             "Error cleaning pull request"))
                        ELSE Returns(Fprintln(c, "Pull request cleaned successfully"))
           ELSE Returns(respond(r, StatusOK, "Ignoring non-actionable pull request event"))
  /\ UNCHANGED <<built, twin, runnerCall, allowRepoConfig>>
  /\ UNCHANGED builderVars

\* The pull request the events of a behaviour are about.
EventRepo == <<"owner", "infra">>

EventPull == 1

\* PullCleaner.CleanUpPull, when it succeeds, on the working directories:
\* FileWorkspace.Delete of the pull request.
CleanUpPull(fs, r, n) == RemoveAll(fs, repoPullDir(r, n))

\* EventsController.handlePullRequestEvent
handlePullRequestEvent ==
  /\ req.pc = "handlePullRequestEvent"
  /\ \E whitelisted \in BOOLEAN, cleaned \in BOOLEAN :
       LET r == [Called(req, "IsWhitelisted") EXCEPT !.whitelisted = YesNo(whitelisted)]
       IN  /\ IF ~whitelisted
                THEN Returns(respond(IF r.eventType = OpenPullEvent
                                       THEN commentNotWhitelisted(r) ELSE r,
                                     StatusForbidden,
                                     "Ignoring pull request event from non-whitelisted repo"))
              ELSE IF r.eventType \in {OpenPullEvent, UpdatedPullEvent}
                THEN Returns(RunCommand(Fprintln(r, "Processing..."), "RunAutoplanCommand"))
              ELSE IF r.eventType = ClosedPullEvent
                THEN LET c == [Called(r, "CleanUpPull") EXCEPT !.cleaned = YesNo(cleaned)]
                     IN  IF ~cleaned
                           THEN Returns(respond(c, StatusInternalServerError,
                                                "Error cleaning pull request"))
                           ELSE Returns(Fprintln(c, "Pull request cleaned successfully"))
              ELSE Returns(respond(r, StatusOK, "Ignoring non-actionable pull request event"))
           /\ disk' = IF whitelisted /\ r.eventType = ClosedPullEvent /\ cleaned
                        THEN CleanUpPull(disk, EventRepo, EventPull)
                        ELSE disk
  /\ UNCHANGED <<built, twin, runnerCall, allowRepoConfig>>
  /\ UNCHANGED <<locks, call, lastClone, lastDelete>>

\* EventsController.handleGitlabPost
handleGitlabPost ==
  /\ req.pc = "handleGitlabPost"
  /\ \E valid \in BOOLEAN, event \in EventKinds :
       LET r == [Called(req, "ParseAndValidate") EXCEPT
                   !.valid = YesNo(valid), !.event = IF valid THEN event ELSE "?"]
       IN  IF ~valid
             THEN Returns(respond(r, StatusBadRequest, "request did not pass validation"))
           ELSE IF event = "comment" THEN GoesOn(r, "HandleGitlabCommentEvent")
           ELSE IF event = "pull" THEN GoesOn(r, "HandleGitlabMergeRequestEvent")
           ELSE Returns(respond(r, StatusOK, "Ignoring unsupported event"))
  /\ UNCHANGED <<built, twin, runnerCall, allowRepoConfig>>
  /\ UNCHANGED builderVars

\* EventsController.HandleGitlabCommentEvent
HandleGitlabCommentEvent ==
  /\ req.pc = "HandleGitlabCommentEvent"
  /\ \E parsed \in BOOLEAN :
       LET r == [Called(req, "ParseGitlabMergeCommentEvent") EXCEPT
                   !.parsed = YesNo(parsed)]
       IN  IF ~parsed
             THEN Returns(respond(r, StatusBadRequest, "Error parsing webhook"))
             ELSE GoesOn(r, "handleCommentEvent")
  /\ UNCHANGED <<built, twin, runnerCall, allowRepoConfig>>
  /\ UNCHANGED builderVars

\* EventsController.HandleGitlabMergeRequestEvent
HandleGitlabMergeRequestEvent ==
  /\ req.pc = "HandleGitlabMergeRequestEvent"
  /\ \E parsed \in BOOLEAN, action \in Actions :
       LET r == [Called(req, "ParseGitlabMergeEvent") EXCEPT !.parsed = YesNo(parsed)]
       IN  IF ~parsed
             THEN Returns(respond(r, StatusBadRequest, "Error parsing webhook"))
             ELSE GoesOn([r EXCEPT !.action = action,
                                   !.eventType = GitlabEventType(action)],
                         "handlePullRequestEvent")
  /\ UNCHANGED <<built, twin, runnerCall, allowRepoConfig>>
  /\ UNCHANGED builderVars

\* handleCommentEvent posting the direct response before it asks for the
\* whitelist.
handleCommentEventRespondingFirst ==
  /\ req.pc = "handleCommentEvent"
  /\ \E ignore \in BOOLEAN, response \in BOOLEAN, whitelisted \in BOOLEAN :
       LET p == [Called(req, "CommentParser.Parse") EXCEPT
                   !.ignore = YesNo(ignore),
                   !.response = IF ignore THEN "?" ELSE YesNo(response)]
           r == [Called(p, "IsWhitelisted") EXCEPT !.whitelisted = YesNo(whitelisted)]
       IN  IF ignore
             THEN Returns(respond(p, StatusOK, "Ignoring non-command"))
           ELSE IF response
             THEN Returns(respond(Called(p, "CreateComment: response"), StatusOK,
                                  "Commenting back on pull request"))
           ELSE IF ~whitelisted
             THEN Returns(respond(commentNotWhitelisted(r), StatusForbidden,
                                  "Repo not whitelisted"))
           ELSE Returns(RunCommand(Fprintln(r, "Processing..."), "RunCommentCommand"))
  /\ UNCHANGED <<built, twin, runnerCall, allowRepoConfig>>
  /\ UNCHANGED builderVars

\* handleCommentEvent asking for the whitelist before it looks at Ignore.
handleCommentEventCheckingWhitelistFirst ==
  /\ req.pc = "handleCommentEvent"
  /\ \E ignore \in BOOLEAN, response \in BOOLEAN, whitelisted \in BOOLEAN :
       LET p == [Called(req, "CommentParser.Parse") EXCEPT
                   !.ignore = YesNo(ignore),
                   !.response = IF ignore THEN "?" ELSE YesNo(response)]
           r == [Called(p, "IsWhitelisted") EXCEPT !.whitelisted = YesNo(whitelisted)]
       IN  IF ~whitelisted
             THEN Returns(respond(commentNotWhitelisted(r), StatusForbidden,
                                  "Repo not whitelisted"))
           ELSE IF ignore
             THEN Returns(respond(r, StatusOK, "Ignoring non-command"))
           ELSE IF response
             THEN Returns(respond(Called(r, "CreateComment: response"), StatusOK,
                                  "Commenting back on pull request"))
           ELSE Returns(RunCommand(Fprintln(r, "Processing..."), "RunCommentCommand"))
  /\ UNCHANGED <<built, twin, runnerCall, allowRepoConfig>>
  /\ UNCHANGED builderVars

\* EventsController.handleCommentEvent.  The comment parser says whether
\* the comment is to be ignored and, for a command, whether it has a
\* direct response (CommentResponse # "").
handleCommentEvent ==
  /\ req.pc = "handleCommentEvent"
  /\ \E ignore \in BOOLEAN, response \in BOOLEAN, whitelisted \in BOOLEAN :
       LET p == [Called(req, "CommentParser.Parse") EXCEPT
                   !.ignore = YesNo(ignore),
                   !.response = IF ignore THEN "?" ELSE YesNo(response)]
           r == [Called(p, "IsWhitelisted") EXCEPT !.whitelisted = YesNo(whitelisted)]
       IN  IF ignore
             THEN Returns(respond(p, StatusOK, "Ignoring non-command"))
           ELSE IF ~whitelisted
             THEN Returns(respond(commentNotWhitelisted(r), StatusForbidden,
                                  "Repo not whitelisted"))
           ELSE IF response
             THEN Returns(respond(Called(r, "CreateComment: response"), StatusOK,
                                  "Commenting back on pull request"))
           ELSE Returns(RunCommand(Fprintln(r, "Processing..."), "RunCommentCommand"))
  /\ UNCHANGED <<built, twin, runnerCall, allowRepoConfig>>
  /\ UNCHANGED builderVars

(* the Recovery middleware *)

\* The functions of the handler, which run beneath the middleware.
HandlerFrames ==
  {"Post", "handleGithubPost", "HandleGithubCommentEvent",
   "HandleGithubPullRequestEvent", "handleGitlabPost", "HandleGitlabCommentEvent",
   "HandleGitlabMergeRequestEvent", "handleCommentEvent", "handlePullRequestEvent"}

\* Recovery.ServeHTTP's deferred function on a panic of next(rw, r): it
\* writes the status 500 and logs the panic; the panic goes no further.
Recovery(r) ==
  [Called(WriteHeader(r, StatusInternalServerError), "PANIC") EXCEPT
     !.pc = "recovered"]

\* A call made by a handler function before it writes its response (to the
\* validator, a parser, the whitelist checker, the VCS client or the pull
\* cleaner) panics.
HandlerPanics ==
  /\ req.pc \in HandlerFrames
  /\ req' = Recovery(Called(req, "panic"))
  /\ UNCHANGED <<built, twin, runnerCall, allowRepoConfig>>
  /\ UNCHANGED builderVars

\* In testing mode the CommandRunner function runs in the handler's frame,
\* after "Processing..." has been written: its panic is the handler's.
RunCommandPanics ==
  /\ req.TestingMode
  /\ \/ /\ req.pc = "handleCommentEvent"
        /\ LET p == [Called(req, "CommentParser.Parse") EXCEPT
                       !.ignore = "no", !.response = "no"]
               r == [Called(p, "IsWhitelisted") EXCEPT !.whitelisted = "yes"]
               c == [Called(Fprintln(r, "Processing..."), "RunCommentCommand") EXCEPT
                       !.run = "RunCommentCommand",
                       !.args = CallArgs("RunCommentCommand"),
                       !.runner = "panicked"]
           IN  req' = Recovery(Called(c, "panic"))
     \/ /\ req.pc = "handlePullRequestEvent"
        /\ req.eventType \in {OpenPullEvent, UpdatedPullEvent}
        /\ LET r == [Called(req, "IsWhitelisted") EXCEPT !.whitelisted = "yes"]
               c == [Called(Fprintln(r, "Processing..."), "RunAutoplanCommand") EXCEPT
                       !.run = "RunAutoplanCommand",
                       !.args = CallArgs("RunAutoplanCommand"),
                       !.runner = "panicked"]
           IN  req' = Recovery(Called(c, "panic"))
  /\ UNCHANGED <<built, twin, runnerCall, allowRepoConfig>>
  /\ UNCHANGED builderVars

(* request IDs *)

reqIDSize == 7

\* The longest X-Github-Delivery header value of the model.
MaxDelivery == 8

\* The values of the X-Github-Delivery header: strings of any length up to
\* MaxDelivery, the empty string of a request without the header included.
Deliveries == {[i \in 1..n |-> "d"] : n \in 0..MaxDelivery}

\* make([]byte, n) filled by rand.Read
RandomBytes(n) == [i \in 1..n |-> "byte"]

\* hex.EncodeToString: two hexadecimal digits for every byte
EncodeToString(bytes) == [i \in 1..(2 * Len(bytes)) |-> "x"]

\* the ID returned when rand.Read fails
genfail == <<"g", "e", "n", "f", "a", "i", "l">>

Max(a, b) == IF a >= b THEN a ELSE b

\* EventsController.genRequestID; randOK: rand.Read returns no error.
genRequestID(randOK) ==
  IF ~randOK THEN genfail ELSE EncodeToString(RandomBytes(reqIDSize))

\* EventsController.githubRequestID
githubRequestID(githubIDHeader, randOK) ==
  LET remaining == Max(reqIDSize - Len(githubIDHeader), 0)
  IN  IF ~randOK
        THEN genfail
        ELSE SubSeq(githubIDHeader \o EncodeToString(RandomBytes(remaining)),
                    1, reqIDSize)

\* Post refusing a request that has both headers.
PostRejectingBothHeaders(github, gitlab) ==
  /\ req.pc = "Post"
  /\ \E delivery \in Deliveries, randOK \in BOOLEAN :
       LET r == [req EXCEPT !.githubHeader = github, !.gitlabHeader = gitlab]
           gh == [r EXCEPT !.reqid = githubRequestID(delivery, randOK)]
           gl == [r EXCEPT !.reqid = genRequestID(randOK)]
       IN  IF github /\ gitlab
             THEN Returns(respond(r, StatusBadRequest, "Ignoring request"))
           ELSE IF github
             THEN IF ~supportsHost(gh, "Github")
                    THEN Returns(respond(gh, StatusBadRequest,
                           "Ignoring request since not configured to support GitHub"))
                    ELSE GoesOn([gh EXCEPT !.host = "Github"], "handleGithubPost")
           ELSE IF gitlab
             THEN IF ~supportsHost(gl, "Gitlab")
                    THEN Returns(respond(gl, StatusBadRequest,
                           "Ignoring request since not configured to support GitLab"))
                    ELSE GoesOn([gl EXCEPT !.host = "Gitlab"], "handleGitlabPost")
           ELSE Returns(respond(r, StatusBadRequest, "Ignoring request"))
  /\ UNCHANGED <<built, twin, runnerCall, allowRepoConfig>>
  /\ UNCHANGED builderVars

\* EventsController.Post for a request with or without the headers
\* X-Github-Event (github) and X-Gitlab-Event (gitlab).
Post(github, gitlab) ==
  /\ req.pc = "Post"
  /\ \E delivery \in Deliveries, randOK \in BOOLEAN :
       LET r == [req EXCEPT !.githubHeader = github, !.gitlabHeader = gitlab]
           gh == [r EXCEPT !.reqid = githubRequestID(delivery, randOK)]
           gl == [r EXCEPT !.reqid = genRequestID(randOK)]
       IN  IF github
             THEN IF ~supportsHost(gh, "Github")
                    THEN Returns(respond(gh, StatusBadRequest,
                           "Ignoring request since not configured to support GitHub"))
                    ELSE GoesOn([gh EXCEPT !.host = "Github"], "handleGithubPost")
           ELSE IF gitlab
             THEN IF ~supportsHost(gl, "Gitlab")
                    THEN Returns(respond(gl, StatusBadRequest,
                           "Ignoring request since not configured to support GitLab"))
                    ELSE GoesOn([gl EXCEPT !.host = "Gitlab"], "handleGitlabPost")
           ELSE Returns(respond(r, StatusBadRequest, "Ignoring request"))
  /\ UNCHANGED <<built, twin, runnerCall, allowRepoConfig>>
  /\ UNCHANGED builderVars

(* ------------------------ DefaultCommandRunner ------------------------ *)

\* The runner's entry points.
RunnerEntries == {"RunCommentCommand", "RunAutoplanCommand"}

\* events.CommandName
CommandNames == {"plan", "apply"}

\* The comment of the fork check, AllowForkPRsFlag being "allow-fork-prs-flag".
ForkComment ==
  "Atlantis commands can't be run on fork pull requests. To enable, set --allow-fork-prs-flag"

\* The comment of the state check.
ClosedComment == "Atlantis commands can't be run on closed pull requests"

\* The comment of the recover region.
PanicComment == "Error: goroutine panic"

\* The comment that renders the result of a command.
ResultComment == "result"

\* What the project command builder may return: an error, or the contexts
\* of no, one or two projects (a comment command gets exactly one).
RunnerCtx(dir, workspace) == [RepoRelDir |-> dir, Workspace |-> workspace]

BuiltLists ==
  {<<>>, <<RunnerCtx(".", DefaultWorkspace)>>,
   <<RunnerCtx(".", DefaultWorkspace), RunnerCtx("mod", "staging")>>}

\* One invocation of the runner: entry is the entry point, host the VCS
\* host of the base repo, cmdName the command (plan for an autoplan),
\* AllowForkPRs and getter (the host's pull getter is configured) the
\* runner's configuration.  fetched, parsed, fork, closed and buildOK keep
\* what the collaborators returned ("?": not asked); an autoplan is given
\* its pull request, so fork and closed are known from the start.  calls
\* lists the collaborator calls and logged lines in order, comments the
\* comments created, statuses the commit statuses reported; ctxs are the
\* contexts built, results the ProjectResults of those run so far, reported
\* the CommandResult given to UpdateProjectResult.  panicked: a call has
\* panicked; propagated: the panic has left the invocation.
NewRunnerCall(entry, host, cmdName, allowForkPRs, getter, fork, closed) ==
  [pc |-> "start", entry |-> entry, host |-> host, cmdName |-> cmdName,
   AllowForkPRs |-> allowForkPRs, getter |-> getter,
   fetched |-> "?", parsed |-> "?", fork |-> fork, closed |-> closed,
   buildOK |-> "?", calls |-> <<>>, comments |-> <<>>, statuses |-> <<>>,
   ctxs |-> <<>>, results |-> <<>>, reported |-> <<>>,
   panicked |-> FALSE, propagated |-> FALSE]

\* No invocation of the runner.
NoRunnerCall == [NewRunnerCall("", "", "", FALSE, FALSE, "?", "?") EXCEPT !.pc = "none"]

\* The runner calls a collaborator, or logs a line.
Did(c, op) == [c EXCEPT !.calls = Append(@, op)]

\* VCSClient.CreateComment
CreateComment(c, body) ==
  [Did(c, <<"CreateComment", body>>) EXCEPT !.comments = Append(@, body)]

\* CommitStatusUpdater.Update
Update(c, state) ==
  [Did(c, <<"Update", state, c.cmdName>>) EXCEPT
     !.statuses = Append(@, <<state, c.cmdName>>)]

\* The state UpdateProjectResult rolls the results of a command up into.
RolledUp(results, err) ==
  IF err \/ \E i \in DOMAIN results : ~results[i].ok THEN "Failed" ELSE "Success"

\* CommitStatusUpdater.UpdateProjectResult with the command's result
UpdateProjectResult(c, err) ==
  [Did(c, <<"UpdateProjectResult", c.cmdName>>) EXCEPT
     !.reported = c.results,
     !.statuses = Append(@, <<RolledUp(c.results, err), c.cmdName>>)]

RunnerAt(c, next) == runnerCall' = [c EXCEPT !.pc = next]

RunnerReturns(c) == RunnerAt(c, "returned")

\* The line logged when the pull getter of the host is nil.
NotConfigured(host) ==
  IF host = "Github" THEN "Atlantis not configured to support GitHub"
                     ELSE "Atlantis not configured to support GitLab"

\* The line logged when fetching the pull (merge) request fails.
FetchError(host) ==
  IF host = "Github" THEN "making pull request API call to GitHub: err"
                     ELSE "making merge request API call to GitLab: err"

\* The line logged when parsing the fetched pull request fails.
ParseError == "extracting required fields from comment data: err"

\* Host support: a comment command needs the pull getter of its host; an
\* autoplan is given the pull request and goes on to the checks.
RunnerHostSupport ==
  /\ runnerCall.pc = "start"
  /\ IF runnerCall.entry = "RunAutoplanCommand"
       THEN RunnerAt(runnerCall, "fork check")
     ELSE IF ~runnerCall.getter
       THEN RunnerReturns(Did(runnerCall, <<"log", NotConfigured(runnerCall.host)>>))
     ELSE RunnerAt(runnerCall, "fetch")
  /\ UNCHANGED <<built, req, twin, allowRepoConfig>>
  /\ UNCHANGED builderVars

\* A PR fetch whose failure is logged and does not end the invocation.
RunnerFetchPullIgnoringError ==
  /\ runnerCall.pc = "fetch"
  /\ \E ok \in BOOLEAN :
       LET c == [Did(runnerCall, <<"GetPullRequest", runnerCall.host>>) EXCEPT
                   !.fetched = YesNo(ok)]
       IN  IF ~ok
             THEN RunnerAt(Did(c, <<"log", FetchError(c.host)>>), "parse")
             ELSE RunnerAt(c, "parse")
  /\ UNCHANGED <<built, req, twin, allowRepoConfig>>
  /\ UNCHANGED builderVars

\* PR fetch: GetPullRequest (GetMergeRequest) of the host's getter.
RunnerFetchPull ==
  /\ runnerCall.pc = "fetch"
  /\ \E ok \in BOOLEAN :
       LET c == [Did(runnerCall, <<"GetPullRequest", runnerCall.host>>) EXCEPT
                   !.fetched = YesNo(ok)]
       IN  IF ~ok
             THEN RunnerReturns(Did(c, <<"log", FetchError(c.host)>>))
             ELSE RunnerAt(c, "parse")
  /\ UNCHANGED <<built, req, twin, allowRepoConfig>>
  /\ UNCHANGED builderVars

\* PR parse: the event parser extracts the pull request, whose head repo
\* may be a fork and whose state may be closed.
RunnerParsePull ==
  /\ runnerCall.pc = "parse"
  /\ \E ok \in BOOLEAN, fork \in BOOLEAN, closed \in BOOLEAN :
       LET c == [Did(runnerCall, <<"ParsePull", runnerCall.host>>) EXCEPT
                   !.parsed = YesNo(ok)]
       IN  IF ~ok
             THEN RunnerReturns(Did(c, <<"log", ParseError>>))
             ELSE RunnerAt([c EXCEPT !.fork = YesNo(fork), !.closed = YesNo(closed)],
                           "fork check")
  /\ UNCHANGED <<built, req, twin, allowRepoConfig>>
  /\ UNCHANGED builderVars

\* A fork check that comments and lets the invocation go on.
RunnerForkCheckNotReturning ==
  /\ runnerCall.pc = "fork check"
  /\ IF runnerCall.fork = "yes" /\ ~runnerCall.AllowForkPRs
       THEN RunnerAt(CreateComment(runnerCall, ForkComment), "state check")
       ELSE RunnerAt(runnerCall, "state check")
  /\ UNCHANGED <<built, req, twin, allowRepoConfig>>
  /\ UNCHANGED builderVars

\* Fork check.
RunnerForkCheck ==
  /\ runnerCall.pc = "fork check"
  /\ IF runnerCall.fork = "yes" /\ ~runnerCall.AllowForkPRs
       THEN RunnerReturns(CreateComment(runnerCall, ForkComment))
       ELSE RunnerAt(runnerCall, "state check")
  /\ UNCHANGED <<built, req, twin, allowRepoConfig>>
  /\ UNCHANGED builderVars

\* State check.  A comment command goes on to report Pending and build;
\* an autoplan builds first.
RunnerStateCheck ==
  /\ runnerCall.pc = "state check"
  /\ IF runnerCall.closed = "yes"
       THEN RunnerReturns(CreateComment(runnerCall, ClosedComment))
     ELSE IF runnerCall.entry = "RunAutoplanCommand"
       THEN RunnerAt(runnerCall, "build")
     ELSE RunnerAt(runnerCall, "pending")
  /\ UNCHANGED <<built, req, twin, allowRepoConfig>>
  /\ UNCHANGED builderVars

\* The runner reports the Pending status of the command.
RunnerPending ==
  /\ runnerCall.pc = "pending"
  /\ RunnerAt(Update(runnerCall, "Pending"),
              IF runnerCall.entry = "RunAutoplanCommand" THEN "run" ELSE "build")
  /\ UNCHANGED <<built, req, twin, allowRepoConfig>>
  /\ UNCHANGED builderVars

\* The builder function an invocation calls.
BuildCall(c) ==
  IF c.entry = "RunAutoplanCommand" THEN "BuildAutoplanCommands"
  ELSE IF c.cmdName = "plan" THEN "BuildPlanCommand" ELSE "BuildApplyCommand"

\* A runner that goes on with an autoplan that has no project.
RunnerBuildReportingEmpty ==
  /\ runnerCall.pc = "build"
  /\ \E ok \in BOOLEAN, ctxs \in BuiltLists :
       LET c == [Did(runnerCall, <<BuildCall(runnerCall)>>) EXCEPT
                   !.buildOK = YesNo(ok), !.ctxs = IF ok THEN ctxs ELSE <<>>]
       IN  /\ runnerCall.entry = "RunCommentCommand" => Len(ctxs) = 1
           /\ IF ~ok
                THEN IF c.entry = "RunCommentCommand"
                       THEN RunnerAt(c, "update")
                       ELSE RunnerReturns(Did(c, <<"log", "building autoplan commands">>))
              ELSE IF c.entry = "RunAutoplanCommand"
                THEN RunnerAt(c, "pending")
              ELSE RunnerAt(c, "run")
  /\ UNCHANGED <<built, req, twin, allowRepoConfig>>
  /\ UNCHANGED builderVars

\* The runner calls the project command builder.  An error of a comment
\* command is reported on the pull request, one of an autoplan is logged;
\* an autoplan without projects exits.
RunnerBuild ==
  /\ runnerCall.pc = "build"
  /\ \E ok \in BOOLEAN, ctxs \in BuiltLists :
       LET c == [Did(runnerCall, <<BuildCall(runnerCall)>>) EXCEPT
                   !.buildOK = YesNo(ok), !.ctxs = IF ok THEN ctxs ELSE <<>>]
       IN  /\ runnerCall.entry = "RunCommentCommand" => Len(ctxs) = 1
           /\ IF ~ok
                THEN IF c.entry = "RunCommentCommand"
                       THEN RunnerAt(c, "update")
                       ELSE RunnerReturns(Did(c, <<"log", "building autoplan commands">>))
              ELSE IF c.entry = "RunAutoplanCommand"
                THEN IF ctxs = <<>>
                       THEN RunnerReturns(Did(c, <<"log", "no project to run plan in">>))
                       ELSE RunnerAt(c, "pending")
              ELSE RunnerAt(c, "run")
  /\ UNCHANGED <<built, req, twin, allowRepoConfig>>
  /\ UNCHANGED builderVars

\* A runner whose batch ends at the first failing project.
RunnerRunContextAbortingOnFailure ==
  /\ runnerCall.pc = "run"
  /\ Len(runnerCall.results) < Len(runnerCall.ctxs)
  /\ \E ok \in BOOLEAN :
       LET ctx == runnerCall.ctxs[Len(runnerCall.results) + 1]
           c == Did(runnerCall, <<"Run", runnerCall.cmdName, ctx.RepoRelDir, ctx.Workspace>>)
       IN  RunnerAt([c EXCEPT !.results = Append(@,
                       [RepoRelDir |-> ctx.RepoRelDir, Workspace |-> ctx.Workspace,
                        ok |-> ok])],
                    IF ok /\ Len(c.results) + 1 < Len(c.ctxs) THEN "run" ELSE "update")
  /\ UNCHANGED <<built, req, twin, allowRepoConfig>>
  /\ UNCHANGED builderVars

\* The runner runs the next context through the project command runner; a
\* failing project is recorded and does not end the batch.
RunnerRunContext ==
  /\ runnerCall.pc = "run"
  /\ Len(runnerCall.results) < Len(runnerCall.ctxs)
  /\ \E ok \in BOOLEAN :
       LET ctx == runnerCall.ctxs[Len(runnerCall.results) + 1]
           c == Did(runnerCall, <<"Run", runnerCall.cmdName, ctx.RepoRelDir, ctx.Workspace>>)
       IN  RunnerAt([c EXCEPT !.results = Append(@,
                       [RepoRelDir |-> ctx.RepoRelDir, Workspace |-> ctx.Workspace,
                        ok |-> ok])],
                    IF Len(c.results) + 1 < Len(c.ctxs) THEN "run" ELSE "update")
  /\ UNCHANGED <<built, req, twin, allowRepoConfig>>
  /\ UNCHANGED builderVars

\* Every context has run, or the build of a comment command has failed:
\* the runner reports the rolled-up result as the commit status.
RunnerUpdatePull ==
  /\ runnerCall.pc = "update"
  /\ RunnerAt(UpdateProjectResult(runnerCall, runnerCall.buildOK = "no"), "comment")
  /\ UNCHANGED <<built, req, twin, allowRepoConfig>>
  /\ UNCHANGED builderVars

\* The runner posts the result as a comment on the pull request.
RunnerComment ==
  /\ runnerCall.pc = "comment"
  /\ RunnerReturns(CreateComment(runnerCall, ResultComment))
  /\ UNCHANGED <<built, req, twin, allowRepoConfig>>
  /\ UNCHANGED builderVars

\* The steps of the runner that call a collaborator.
CallingSteps ==
  {"fetch", "parse", "fork check", "state check", "pending", "build", "run",
   "update", "comment"}

\* A recover region that logs the panic and tells the pull request nothing.
logPanicsWithoutComment(c) ==
  [Did(c, <<"log", "PANIC">>) EXCEPT !.panicked = TRUE, !.propagated = FALSE]

\* The recover region of the runner on a panic: the panic is logged and
\* reported as a comment, and does not leave the invocation.
logPanics(c) ==
  [CreateComment(Did(c, <<"log", "PANIC">>), PanicComment) EXCEPT
     !.panicked = TRUE, !.propagated = FALSE]

\* The call a step is about to make panics; a panicking call has no effect.
RunnerPanics ==
  /\ runnerCall.pc \in CallingSteps
  /\ RunnerReturns(logPanics(Did(runnerCall, <<"panic", runnerCall.pc>>)))
  /\ UNCHANGED <<built, req, twin, allowRepoConfig>>
  /\ UNCHANGED builderVars

(* --------------------------- specification ---------------------------- *)

Init ==
  /\ allowRepoConfig \in BOOLEAN
  /\ locks = {}
  /\ disk = <<>>
  /\ call = [c \in Calls |-> IdleCall]
  /\ lastClone = <<>>
  /\ lastDelete = NoDelete
  /\ built = NotBuilt
  /\ req = NoRequest
  /\ twin = NoRequest
  /\ runnerCall = NoRunnerCall

\* The pull requests the webhooks of a behaviour are about: the first
\* Build call is for pull 1 of one repository (repositories and pull
\* numbers are interchangeable), the later ones for any pull.
PullsOf(c) ==
  IF c = 1 THEN {<<"owner", "infra">>} \X {1} ELSE Repos \X PullNums

Next ==
  \/ \E c \in Calls : \E p \in PullsOf(c) : BuildAutoplanCommands(c, p[1], p[2])
  \/ \E c \in Calls, w \in Workspaces :
       \E p \in PullsOf(c) : BuildPlanCommand(c, p[1], p[2], w)
  \/ \E c \in Calls, w \in Workspaces :
       \E p \in PullsOf(c) : BuildApplyCommand(c, p[1], p[2], w)
  \/ \E c \in Calls : Clone(c)
  \/ \E c \in Calls : revParse(c)
  \/ \E c \in Calls : forceClone(c)
  \/ \E c \in Calls : forceCloneMkdirAll(c)
  \/ \E c \in Calls : forceCloneGitClone(c)
  \/ \E c \in Calls : forceCloneCheckout(c)
  \/ \E c \in Calls : GetWorkingDir(c)
  \/ \E c \in Calls : buildProjectCommandCtx(c)
  \/ \E c \in Calls : AutoplanReadConfig(c)
  \/ \E c \in Calls : AutoplanGetModifiedFiles(c)
  \/ \E c \in Calls : AutoplanDetermineProjects(c)

Spec == Init /\ [][Next]_vars

(* ---------- the working directories of a data dir in use -------------- *)

\* Every working directory FileWorkspace can own.
AllCloneDirs ==
  {cloneDir(r, n, w) : r \in Repos, n \in PullNums, w \in Workspaces}

\* What a working directory left by an earlier Clone holds: nothing that
\* resolves (its git clone failed) or a work tree at a commit.  Delete does
\* not look into the directories, so one commit stands for all.
LeftHeads == {0, MaxCommit}

\* The data dir outlives the server: FileWorkspace starts over whatever
\* working directories earlier runs left, here at most MaxDirs of them.
DataDirs ==
  UNION {[D -> LeftHeads] : D \in {E \in SUBSET AllCloneDirs : Cardinality(E) <= MaxDirs}}

InitFS ==
  /\ allowRepoConfig = FALSE
  /\ locks = {}
  /\ disk \in DataDirs
  /\ call = [c \in Calls |-> IdleCall]
  /\ lastClone = <<>>
  /\ lastDelete = NoDelete
  /\ built = NotBuilt
  /\ req = NoRequest
  /\ twin = NoRequest
  /\ runnerCall = NoRunnerCall

NextFS ==
  \/ \E r \in Repos, n \in PullNums : Delete(r, n)
  \/ \E r \in Repos, n \in PullNums, w \in Workspaces : DeleteForWorkspace(r, n, w)

\* Delete and DeleteForWorkspace called in any order on any data dir.
SpecFS == InitFS /\ [][NextFS]_vars

(* --------- buildProjectCommandCtx over commands and repo dirs --------- *)

InitCfg ==
  /\ allowRepoConfig \in BOOLEAN
  /\ locks = {}
  /\ disk = <<>>
  /\ call = [c \in Calls |-> IdleCall]
  /\ lastClone = <<>>
  /\ lastDelete = NoDelete
  /\ built = NotBuilt
  /\ req = NoRequest
  /\ twin = NoRequest
  /\ runnerCall = NoRunnerCall

NextCfg ==
  \E projectName \in ProjectNames, dir \in RelDirs, workspace \in Workspaces,
     has \in HasConfigFileResults, readOK \in BOOLEAN :
    BuildCtx(projectName, dir, workspace, has, readOK)

\* buildProjectCommandCtx applied to any command on any repo dir, with
\* AllowRepoConfig set or not.
SpecCfg == InitCfg /\ [][NextCfg]_vars

(* ------------------- EventsController on one request ------------------ *)

InitWeb ==
  /\ allowRepoConfig = FALSE
  /\ locks = {}
  /\ disk = <<>>
  /\ call = [c \in Calls |-> IdleCall]
  /\ lastClone = <<>>
  /\ lastDelete = NoDelete
  /\ built = NotBuilt
  /\ req \in {NewRequest(t, s) : t \in BOOLEAN, s \in SUBSET VCSHosts}
  /\ twin = NoRequest
  /\ runnerCall = NoRunnerCall

NextWeb ==
  \/ \E github \in BOOLEAN, gitlab \in BOOLEAN : Post(github, gitlab)
  \/ handleGithubPost
  \/ HandleGithubCommentEvent
  \/ HandleGithubPullRequestEvent
  \/ handleGitlabPost
  \/ HandleGitlabCommentEvent
  \/ HandleGitlabMergeRequestEvent
  \/ handleCommentEvent
  \/ handlePullRequestEvent
  \/ CommandRunner

\* A webhook request to a controller of any configuration, and the
\* goroutine the handler may start.
SpecWeb == InitWeb /\ [][NextWeb]_vars

(* ------------- one event, outside and inside testing mode ------------- *)

\* The request has been handled outside testing mode: it is kept as twin
\* and the event is delivered to the same controller in testing mode.
Redeliver ==
  /\ twin = NoRequest
  /\ ~req.TestingMode
  /\ req.pc = "returned"
  /\ twin' = req
  /\ req' = NewRequest(TRUE, req.SupportedVCSHosts)
  /\ UNCHANGED <<built, runnerCall, allowRepoConfig>>
  /\ UNCHANGED builderVars

InitModes ==
  /\ allowRepoConfig = FALSE
  /\ locks = {}
  /\ disk = <<>>
  /\ call = [c \in Calls |-> IdleCall]
  /\ lastClone = <<>>
  /\ lastDelete = NoDelete
  /\ built = NotBuilt
  /\ req \in {NewRequest(FALSE, s) : s \in SUBSET VCSHosts}
  /\ twin = NoRequest
  /\ runnerCall = NoRunnerCall

NextModes ==
  \/ NextWeb
  \/ Redeliver

\* A webhook request handled outside testing mode and then anew, with
\* whatever the collaborators return, in testing mode.
SpecModes == InitModes /\ [][NextModes]_vars

(* ------------------ a request beneath the middleware ------------------ *)

NextRecovery ==
  \/ NextWeb
  \/ HandlerPanics
  \/ RunCommandPanics

\* A webhook request whose handler may panic beneath the Recovery
\* middleware.
SpecRecovery == InitWeb /\ [][NextRecovery]_vars

(* ------------- the events of one pull request, in turn --------------- *)

\* The handler of the first event has returned and the next event of the
\* pull request is delivered; the first request is kept as twin.
NextEvent ==
  /\ twin = NoRequest
  /\ req.pc = "returned"
  /\ twin' = req
  /\ req' = NewRequest(req.TestingMode, req.SupportedVCSHosts)
  /\ UNCHANGED <<built, runnerCall, allowRepoConfig>>
  /\ UNCHANGED builderVars

\* The request whose goroutine is the Build call c: the first event's for
\* call 1, the second event's for call 2.
RequestOf(c) ==
  IF c = 1 THEN (IF twin = NoRequest THEN req ELSE twin)
  ELSE (IF twin = NoRequest THEN NoRequest ELSE req)

\* The goroutine started by the handler of an Open or Updated event runs
\* RunAutoplanCommand, which builds the autoplan of the event's pull
\* request.
RunAutoplanCommand(c) ==
  /\ RequestOf(c).runner = "spawned"
  /\ RequestOf(c).run = "RunAutoplanCommand"
  /\ BuildAutoplanCommands(c, EventRepo, EventPull)

InitEvents ==
  /\ allowRepoConfig = FALSE
  /\ locks = {}
  /\ disk = <<>>
  /\ call = [c \in Calls |-> IdleCall]
  /\ lastClone = <<>>
  /\ lastDelete = NoDelete
  /\ built = NotBuilt
  /\ req = NewRequest(FALSE, VCSHosts)
  /\ twin = NoRequest
  /\ runnerCall = NoRunnerCall

NextEvents ==
  \/ \E github \in BOOLEAN, gitlab \in BOOLEAN : Post(github, gitlab)
  \/ handleGithubPost
  \/ HandleGithubPullRequestEvent
  \/ handleGitlabPost
  \/ HandleGitlabMergeRequestEvent
  \/ handlePullRequestEvent
  \/ NextEvent
  \/ \E c \in Calls : RunAutoplanCommand(c)
  \/ \E c \in Calls : Clone(c)
  \/ \E c \in Calls : revParse(c)
  \/ \E c \in Calls : forceClone(c)
  \/ \E c \in Calls : forceCloneMkdirAll(c)
  \/ \E c \in Calls : forceCloneGitClone(c)
  \/ \E c \in Calls : forceCloneCheckout(c)
  \/ \E c \in Calls : AutoplanReadConfig(c)
  \/ \E c \in Calls : AutoplanGetModifiedFiles(c)
  \/ \E c \in Calls : AutoplanDetermineProjects(c)

\* Two events of one pull request delivered in turn to a controller
\* outside testing mode, and the autoplans their handlers start.
SpecEvents == InitEvents /\ [][NextEvents]_vars

(* ------------------- one invocation of the runner --------------------- *)

\* The invocations: a comment command of either name, whose pull request
\* the runner fetches, or an autoplan, whose pull request is given.
RunnerCalls ==
  {NewRunnerCall("RunCommentCommand", h, n, a, g, "?", "?") :
     h \in VCSHosts, n \in CommandNames, a \in BOOLEAN, g \in BOOLEAN}
  \cup
  {NewRunnerCall("RunAutoplanCommand", h, "plan", a, g, YesNo(f), YesNo(c)) :
     h \in VCSHosts, a \in BOOLEAN, g \in BOOLEAN, f \in BOOLEAN, c \in BOOLEAN}

InitRunner ==
  /\ allowRepoConfig = FALSE
  /\ locks = {}
  /\ disk = <<>>
  /\ call = [c \in Calls |-> IdleCall]
  /\ lastClone = <<>>
  /\ lastDelete = NoDelete
  /\ built = NotBuilt
  /\ req = NoRequest
  /\ twin = NoRequest
  /\ runnerCall \in RunnerCalls

NextRunner ==
  \/ RunnerHostSupport
  \/ RunnerFetchPull
  \/ RunnerParsePull
  \/ RunnerForkCheck
  \/ RunnerStateCheck
  \/ RunnerPending
  \/ RunnerBuild
  \/ RunnerRunContext
  \/ RunnerUpdatePull
  \/ RunnerComment
  \/ RunnerPanics

\* One invocation of the runner with collaborators that return, fail or
\* panic as they please.
SpecRunner == InitRunner /\ [][NextRunner]_vars

(* ------------------------------- claims ------------------------------- *)

\* A call between its successful TryLock and its release.
Holding(cl) == cl.acquired /\ cl.pc # "done"

\* (repo, PR, workspace) of a call.
Triple(cl) == <<cl.repo, cl.pull, cl.workspace>>

\* C1: of the Build calls on one (repo full name, workspace, PR number) key
\* at most one is between its TryLock and its release; a call that starts
\* while another holds its key returns the workspace-locked error in that
\* very step, having made no operation but TryLock and with the disk
\* untouched; a call whose key no other call holds goes on, holding it.
C1_WorkspaceLockExcludes ==
  /\ [](\A c, d \in Calls :
          c # d /\ Holding(call[c]) /\ Holding(call[d])
            => Key(call[c]) # Key(call[d]))
  /\ [][\A c \in Calls :
          call[c].pc = "idle" /\ call'[c].pc # "idle"
            => IF \E d \in Calls \ {c} :
                    Holding(call[d]) /\ Key(call[d]) = Key(call'[c])
                 THEN /\ call'[c].pc = "done"
                      /\ call'[c].err = "workspace locked"
                      /\ call'[c].ops = <<"TryLock">>
                      /\ call'[c].ctxs = <<>>
                      /\ disk' = disk
                 ELSE Holding(call'[c]) /\ call'[c].err = ""]_vars

\* C1's case: a call was refused the key another call holds while cloning.
C1_Witness ==
  \E c, d \in Calls :
    /\ c # d
    /\ call[c].pc = "gitClone"
    /\ Holding(call[c])
    /\ call[d].pc = "done"
    /\ call[d].err = "workspace locked"
    /\ Key(call[d]) = Key(call[c])

\* How often the operation op is in ops.
Count(ops, op) == Len(SelectSeq(ops, LAMBDA o : o = op))

\* C2: a Build call makes one TryLock; once it has returned, with a result
\* or with any error, the key it acquired has been released exactly once,
\* and nothing was released when TryLock failed; before it returns it has
\* released nothing.  The keys held are those of the calls in progress, so
\* no key is held when no call is in progress.
C2_LockReleasedOnReturn ==
  /\ \A c \in Calls :
       /\ Count(call[c].ops, "TryLock") <= 1
       /\ Count(call[c].ops, "Unlock") = call[c].released
       /\ call[c].pc = "done" =>
            call[c].released = IF call[c].acquired THEN 1 ELSE 0
       /\ call[c].pc # "done" => call[c].released = 0
  /\ locks = {Key(call[c]) : c \in {d \in Calls : Holding(call[d])}}

\* C2's case: every call has returned, one of them from a failed git clone
\* after it had acquired its key, and no key is held.
C2_Witness ==
  /\ \A c \in Calls : call[c].pc = "done"
  /\ \E c \in Calls :
       call[c].err = "cloning" /\ call[c].acquired /\ call[c].released = 1
  /\ locks = {}

\* The operations of forceClone, in the order of its code.
ForceCloneSteps == <<"RemoveAll", "MkdirAll", "GitClone", "GitCheckout">>

\* The operations of forceClone among ops.
ForceCloneOps(ops) ==
  SelectSeq(ops, LAMBDA o : o \in {"RemoveAll", "MkdirAll", "GitClone", "GitCheckout"})

\* Clone has called forceClone: its RemoveAll is next, or made.
ForceCloned(cl) == cl.pc = "RemoveAll" \/ ForceCloneOps(cl.ops) # <<>>

\* A call, with its key, whose Clone has decided between reuse and
\* force-clone.
Decided(cl) ==
  cl.kind \in {"autoplan", "plan"} /\ cl.acquired /\ cl.pc \notin {"Clone", "revParse"}

\* The Clone call before cl's, on the same directory and with the same
\* p.HeadCommit, ended with result.
PrevClone(cl, result) == cl.prev = <<[head |-> cl.head, result |-> result]>>

\* C3 as stated: when Clone returns the same path twice in a row for the
\* same (repo, PR, workspace) and the same pr.headCommit, the second call
\* spawns no git clone.
C3_NoCloneOnSecondReturn ==
  \A c \in Calls :
    call[c].cloned /\ PrevClone(call[c], "returned")
      => Count(call[c].ops, "GitClone") = 0

\* C4: Clone force-clones exactly when cloneDir does not exist, or exists
\* and rev-parse fails, or exists with a HEAD other than pr.headCommit; the
\* force-clone makes RemoveAll, MkdirAll, git clone and git checkout in
\* that order (the directory is gone after RemoveAll, there and empty after
\* MkdirAll), all four when Clone returns; a call that has not force-cloned
\* changes nothing on disk.
C4_ForceCloneExactlyWhenNotAtHead ==
  /\ [](\A c \in Calls :
          Decided(call[c]) =>
            /\ ForceCloned(call[c])
                 <=> \/ ~call[c].existed
                     \/ call[c].existed /\ call[c].currCommit = 0
                     \/ call[c].existed /\ call[c].currCommit # call[c].head
            /\ IsPrefix(ForceCloneOps(call[c].ops), ForceCloneSteps)
            /\ call[c].cloned /\ ForceCloneOps(call[c].ops) # <<>>
                 => ForceCloneOps(call[c].ops) = ForceCloneSteps)
  /\ [][\A c \in Calls :
          /\ call'[c] # call[c] /\ call'[c].pc = "MkdirAll"
               => ~Exists(disk', call'[c].dir)
          /\ call'[c] # call[c] /\ call'[c].pc = "gitClone"
               => Exists(disk', call'[c].dir) /\ disk'[call'[c].dir] = 0
          /\ /\ call'[c] # call[c]
             /\ call'[c].kind \in {"autoplan", "plan"}
             /\ ~ForceCloned(call'[c])
             => disk' = disk]_vars

\* C4's case: Clone found the directory at another commit than
\* pr.headCommit, force-cloned and returned.
C4_Witness ==
  \E c \in Calls :
    /\ call[c].existed
    /\ call[c].currCommit \notin {0, call[c].head}
    /\ call[c].cloned
    /\ ForceCloneOps(call[c].ops) = ForceCloneSteps

\* C5 as stated: the Clone call after one whose checkout failed, for the
\* same (repo, PR, workspace) and pr, force-clones.
C5_ForceCloneAfterFailedCheckout ==
  \A c \in Calls :
    PrevClone(call[c], "checking out branch") /\ Decided(call[c])
      => ForceCloned(call[c])

\* C5, amended: a failed checkout makes the call return an error and no
\* context and leaves the directory as git clone left it; the next Clone
\* call for the same (repo, PR, workspace) and pr finds the directory and
\* force-clones unless its HEAD, the tip of the cloned default branch, is
\* pr.headCommit: only then it returns the directory as it is.
C5_ForceCloneUnlessCloneLeftHeadCommit ==
  /\ [][\A c \in Calls :
          call[c].pc = "gitCheckout" /\ call'[c].pc = "done"
            => /\ call'[c].err = "checking out branch"
               /\ call'[c].ctxs = <<>>
               /\ ~call'[c].cloned
               /\ Exists(disk', call[c].dir)
               /\ disk' = disk]_vars
  /\ [](\A c \in Calls :
          PrevClone(call[c], "checking out branch") /\ Decided(call[c])
            => /\ call[c].existed
               /\ ~ForceCloned(call[c])
                    <=> call[c].currCommit = call[c].head)

\* C5's case: after a failed checkout the next Clone with the same pr
\* found the stale directory, force-cloned and returned.
C5_Witness ==
  \E c \in Calls :
    /\ PrevClone(call[c], "checking out branch")
    /\ call[c].existed
    /\ call[c].currCommit # 0
    /\ call[c].cloned
    /\ ForceCloneOps(call[c].ops) = ForceCloneSteps

\* The (repo, PR, workspace) triples of the model.
Triples == Repos \X PullNums \X Workspaces

\* cloneDir of every triple.
CloneDirOf == [t \in Triples |-> cloneDir(t[1], t[2], t[3])]

\* The working directories of distinct triples are distinct and none lies
\* inside another.
CloneDirsApart ==
  \A s, t \in Triples : s # t => ~IsPrefix(CloneDirOf[s], CloneDirOf[t])

\* The directory at path is the same before and after the step.
SameDir(path) ==
  /\ Exists(disk', path) <=> Exists(disk, path)
  /\ Exists(disk, path) /\ Exists(disk', path) => disk'[path] = disk[path]

Under(fs, path) == {d \in DOMAIN fs : IsPrefix(path, d)}

\* C7: a Delete(repo, pr) that follows a successful Delete(repo, pr)
\* succeeds and leaves the disk as the first left it; a Delete for a pull
\* request without any working directory succeeds and changes nothing; a
\* successful Delete leaves no directory of the pull request.
C7_DeleteIdempotent ==
  [][lastDelete'.op = "Delete" =>
       LET path == repoPullDir(lastDelete'.repo, lastDelete'.pull)
       IN  /\ /\ lastDelete.op = "Delete"
              /\ lastDelete.ok
              /\ lastDelete.repo = lastDelete'.repo
              /\ lastDelete.pull = lastDelete'.pull
              => lastDelete'.ok /\ disk' = disk
           /\ Under(disk, path) = {} => lastDelete'.ok /\ disk' = disk
           /\ lastDelete'.ok => Under(disk', path) = {}]_vars

\* C7's case: the second Delete in a row for the same pull request has
\* succeeded, with nothing to remove, while directories of other pull
\* requests are on the disk.
C7_Witness ==
  /\ lastDelete.op = "Delete"
  /\ lastDelete.again
  /\ lastDelete.ok
  /\ lastDelete.removed = {}
  /\ disk # <<>>

\* C8: a successful Delete(repo, pr) leaves no working directory of any
\* workspace of the pull request and every directory of another pull
\* request or repository as it was; a successful DeleteForWorkspace(repo,
\* pr, ws) leaves no directory of that workspace and every other directory,
\* those of the other workspaces of the pull request among them, as it was.
C8_DeleteFrame ==
  [][/\ lastDelete'.op = "Delete" /\ lastDelete'.ok =>
          \A t \in Triples :
            IF t[1] = lastDelete'.repo /\ t[2] = lastDelete'.pull
              THEN ~Exists(disk', cloneDir(t[1], t[2], t[3]))
              ELSE SameDir(cloneDir(t[1], t[2], t[3]))
     /\ lastDelete'.op = "DeleteForWorkspace" /\ lastDelete'.ok =>
          \A t \in Triples :
            IF t = <<lastDelete'.repo, lastDelete'.pull, lastDelete'.workspace>>
              THEN ~Exists(disk', cloneDir(t[1], t[2], t[3]))
              ELSE SameDir(cloneDir(t[1], t[2], t[3]))]_vars

\* C8's case: Delete has removed the directories of two workspaces of a
\* pull request, and a directory of another pull request of the same
\* repository is still there.
C8_Witness ==
  /\ lastDelete.op = "Delete"
  /\ lastDelete.ok
  /\ Cardinality(lastDelete.removed) = 2
  /\ \E n \in PullNums \ {lastDelete.pull} :
       Under(disk, repoPullDir(lastDelete.repo, n)) # {}

\* C9: a BuildApplyCommand call leaves the disk as it is in every step; it
\* makes no operation of Clone, only TryLock, GetWorkingDir, the config
\* lookup and the unlock; when the directory of (repo, PR, cmd.workspace)
\* is not there, GetWorkingDir's error is returned with no context and the
\* key is released.
C9_ApplyOnlyLooksUp ==
  /\ [](\A c \in Calls :
          call[c].kind = "apply" =>
            /\ \A i \in 1..Len(call[c].ops) :
                 call[c].ops[i] \in
                   {"TryLock", "GetWorkingDir", "HasConfigFile", "ReadConfig", "Unlock"}
            /\ ~call[c].cloned)
  /\ [][\A c \in Calls :
          call'[c] # call[c] /\ call'[c].kind = "apply" =>
            /\ disk' = disk
            /\ /\ call[c].pc = "GetWorkingDir"
               /\ ~Exists(disk, cloneDir(call[c].repo, call[c].pull, call[c].workspace))
               => /\ call'[c].pc = "done"
                  /\ call'[c].err = "checking if workspace exists"
                  /\ call'[c].ctxs = <<>>
                  /\ call'[c].released = 1
                  /\ Key(call[c]) \notin locks']_vars

\* C9's case: an apply for a workspace without a directory has returned the
\* not-found error while the pull request has a directory for another
\* workspace.
C9_Witness ==
  \E c \in Calls :
    /\ call[c].kind = "apply"
    /\ call[c].pc = "done"
    /\ call[c].err = "checking if workspace exists"
    /\ call[c].released = 1
    /\ ~Exists(disk, cloneDir(call[c].repo, call[c].pull, call[c].workspace))
    /\ Under(disk, repoPullDir(call[c].repo, call[c].pull)) # {}

\* C10: a Build call of whatever kind that finds the config file in the
\* repo directory while AllowRepoConfig is false has returned an error and
\* no context, without having called ReadConfig, whatever project name,
\* dir and workspace the command names.
C10_RepoConfigNotAllowed ==
  \A c \in Calls :
    call[c].hasConfigFile /\ ~allowRepoConfig
      => /\ call[c].pc = "done"
         /\ call[c].err = "atlantis.yaml files not allowed"
         /\ call[c].ctxs = <<>>
         /\ Count(call[c].ops, "ReadConfig") = 0

\* C10's case: an autoplan and an apply both found the
\* config file with AllowRepoConfig false, and both failed.
C10_Witness ==
  /\ ~allowRepoConfig
  /\ \E c, d \in Calls :
       /\ call[c].kind = "autoplan"
       /\ call[d].kind = "apply"
       /\ call[c].hasConfigFile
       /\ call[d].hasConfigFile
       /\ call[c].err = "atlantis.yaml files not allowed"
       /\ call[d].err = "atlantis.yaml files not allowed"

\* getCfg got as far as a parsed config: the file is there, repo config is
\* allowed and ReadConfig returned no error.
Parsed(b) == b.has = "yes" /\ allowRepoConfig /\ b.readOK

\* The projects of the parsed config with the dir and workspace of the
\* command.
Matches(b) == FindProjectsByDirWorkspace(RepoConfig, b.dir, b.workspace)

\* getCfg was called without a project name on a parsed config in which no
\* project has the command's dir and workspace.
ZeroMatches(b) == Parsed(b) /\ b.projectName = "" /\ Len(Matches(b)) = 0

\* C11 as stated: with zero matching projects getCfg returns no project
\* and no error but the parsed config, which is the GlobalConfig of the
\* context.
C11_ZeroMatchesKeepGlobalConfig ==
  ZeroMatches(built) =>
    /\ built.cfg.proj = Nil
    /\ built.cfg.err = ""
    /\ built.cfg.global = Ptr(RepoConfig)
    /\ Len(built.ctxs) = 1
    /\ built.ctxs[1].GlobalConfig = Ptr(RepoConfig)

\* C11, amended: with a config file present, repo config allowed, no
\* project name and zero projects matching (dir, workspace), getCfg reads
\* the config and returns (nil, nil, nil): the one context emitted has the
\* dir and workspace of the command and neither a project config nor a
\* global config.
C11_ZeroMatchesReturnNoConfig ==
  ZeroMatches(built) =>
    /\ built.cfg = GetCfgResult(Nil, Nil, "", <<"HasConfigFile", "ReadConfig">>)
    /\ built.ctxs = <<ProjectCommandContext(built.dir, built.workspace, Nil, Nil)>>

\* C11's case: a command for dir "mod" in workspace "default", which no
\* project of the parsed config has, got a context without configs.
C11_Witness ==
  /\ ZeroMatches(built)
  /\ built.dir = "mod"
  /\ built.workspace = DefaultWorkspace
  /\ Len(built.ctxs) = 1
  /\ built.ctxs[1].GlobalConfig = Nil

\* The context buildProjectCommandCtx emits for the resolved project proj
\* (a pointer): dir and workspace are the project's.
ResolvedCtx(proj) ==
  ProjectCommandContext(proj[1].Dir, proj[1].Workspace, proj, Ptr(RepoConfig))

\* C12: on a parsed config, a non-empty project name selects the project
\* FindProjectByName returns, whatever the command's dir and workspace,
\* and fails when there is none; without a name exactly one project of the
\* command's dir and workspace is returned with the global config, and
\* more than one fails with 'must specify project name'.  The context of a
\* resolved project has the project's dir and workspace, not the
\* command's.
C12_ProjectResolution ==
  Parsed(built) =>
    IF built.projectName # ""
      THEN LET proj == FindProjectByName(RepoConfig, built.projectName)
           IN  IF proj = Nil
                 THEN /\ built.cfg.err = "no project with name"
                      /\ built.cfg.proj = Nil
                      /\ built.ctxs = <<>>
                 ELSE /\ built.cfg.err = ""
                      /\ built.cfg.proj = proj
                      /\ proj[1].Name = built.projectName
                      /\ built.cfg.global = Ptr(RepoConfig)
                      /\ built.ctxs = <<ResolvedCtx(proj)>>
    ELSE /\ Len(Matches(built)) = 1 =>
              /\ built.cfg.err = ""
              /\ built.cfg.proj = Ptr(Matches(built)[1])
              /\ built.cfg.global = Ptr(RepoConfig)
              /\ built.ctxs = <<ResolvedCtx(built.cfg.proj)>>
              /\ built.ctxs[1].RepoRelDir = built.dir
              /\ built.ctxs[1].Workspace = built.workspace
         /\ Len(Matches(built)) > 1 =>
              /\ built.cfg.err = "must specify project name"
              /\ built.cfg.proj = Nil
              /\ built.ctxs = <<>>

\* C12's case: a command that names project proj1 together with dir "mod"
\* and workspace "staging" got the context of proj1's dir "." and workspace
\* "default".
C12_Witness ==
  /\ Parsed(built)
  /\ built.projectName = "proj1"
  /\ built.dir = "mod"
  /\ built.workspace = "staging"
  /\ Len(built.ctxs) = 1
  /\ built.ctxs[1].RepoRelDir = "."
  /\ built.ctxs[1].Workspace = DefaultWorkspace
  /\ built.ctxs[1].ProjectConfig = Ptr(RepoConfig[1])

\* C13: when HasConfigFile finds no config file, getCfg fails for a
\* non-empty project name and otherwise returns (nil, nil, nil); either
\* way ReadConfig is not called, and AllowRepoConfig makes no difference.
C13_NoConfigFile ==
  built.has = "no" =>
    /\ Count(built.cfg.ops, "ReadConfig") = 0
    /\ IF built.projectName # ""
         THEN /\ built.cfg.err = "cannot specify a project name"
              /\ built.cfg.proj = Nil
              /\ built.cfg.global = Nil
              /\ built.ctxs = <<>>
         ELSE /\ built.cfg = GetCfgResult(Nil, Nil, "", <<"HasConfigFile">>)
              /\ built.ctxs =
                   <<ProjectCommandContext(built.dir, built.workspace, Nil, Nil)>>

\* C13's case: without a config file and without a project name, getCfg
\* returned no error though AllowRepoConfig is false.
C13_Witness ==
  /\ built.has = "no"
  /\ built.projectName = ""
  /\ ~allowRepoConfig
  /\ built.cfg.err = ""
  /\ Len(built.ctxs) = 1

\* C14: a BuildAutoplanCommands call that has returned without error
\* returns one context per project the finder returned, in the finder's
\* order: without a config file context i has the path of project i as
\* dir, workspace "default" and nil configs; with a config file context i
\* has the dir and the workspace of matching project i, a pointer to that
\* very project and the global config.  No project, no context.
C14_OneContextPerProject ==
  \A c \in Calls :
    call[c].kind = "autoplan" /\ call[c].pc = "done" /\ call[c].err = "" =>
      LET ctxs == call[c].ctxs
          found == call[c].found
      IN  /\ Len(ctxs) = Len(found)
          /\ found = <<>> => ctxs = <<>>
          /\ \A i \in 1..Len(found) :
               IF ~call[c].hasConfigFile
                 THEN ctxs[i] = ProjectCommandContext(found[i], DefaultWorkspace, Nil, Nil)
                 ELSE /\ ctxs[i].RepoRelDir = found[i].Dir
                      /\ ctxs[i].Workspace = found[i].Workspace
                      /\ ctxs[i].ProjectConfig = Ptr(found[i])
                      /\ ctxs[i].GlobalConfig = Ptr(RepoConfig)

\* C14's case: an autoplan with a config file returned the contexts of two
\* matching projects, the unnamed project of workspace "staging" first,
\* each with its own project config.
C14_Witness ==
  \E c \in Calls :
    /\ call[c].kind = "autoplan"
    /\ call[c].pc = "done"
    /\ call[c].err = ""
    /\ call[c].hasConfigFile
    /\ call[c].found = <<RepoConfig[3], RepoConfig[1]>>
    /\ Len(call[c].ctxs) = 2
    /\ call[c].ctxs[1].ProjectConfig = Ptr(RepoConfig[3])
    /\ call[c].ctxs[2].ProjectConfig = Ptr(RepoConfig[1])

(* ---------------------- EventsController claims ----------------------- *)

\* The number of calls of op the request has made.
CountOf(op) == Cardinality({i \in DOMAIN req.log : req.log[i] = op})

\* The position of the first call of op, 0 when there is none.
FirstOf(op) ==
  IF CountOf(op) = 0 THEN 0
  ELSE CHOOSE i \in DOMAIN req.log :
         req.log[i] = op /\ \A j \in 1..(i - 1) : req.log[j] # op

\* The comments the handler has created on the pull request.
Comments == CountOf("CreateComment: not whitelisted") + CountOf("CreateComment: response")

\* The CommandRunner invocations of the request, started or spawned.
Invocations ==
  IF req.TestingMode
    THEN CountOf("RunCommentCommand") + CountOf("RunAutoplanCommand")
    ELSE CountOf("go")

\* Nothing of the CommandRunner has been invoked.
NoRunner ==
  /\ req.runner = "none"
  /\ CountOf("go") + CountOf("RunCommentCommand") + CountOf("RunAutoplanCommand") = 0

\* C15: a comment the parser says to ignore is answered with 200; no comment
\* is created on the pull request, whether the repo is whitelisted or not
\* (the whitelist is not even asked), and the runner is not invoked.
C15_IgnoredCommentOnlyAnswered ==
  req.ignore = "yes" =>
    /\ req.pc = "returned"
    /\ req.status = StatusOK
    /\ req.body = <<"Ignoring non-command">>
    /\ Comments = 0
    /\ CountOf("IsWhitelisted") = 0
    /\ NoRunner

C15_Witness ==
  /\ req.ignore = "yes"
  /\ req.pc = "returned"
  /\ req.host = "Gitlab"
  /\ CountOf("CommentParser.Parse") = 1
\* C16 as stated: a non-ignored comment with a direct response has the
\* response posted and 200 returned without the runner, the whitelist being
\* asked only for comments without a direct response.
C16_DirectResponseBeforeWhitelist ==
  req.response = "yes" =>
    /\ req.pc = "returned"
    /\ CountOf("CreateComment: response") = 1
    /\ req.status = StatusOK
    /\ NoRunner
    /\ CountOf("IsWhitelisted") = 0

\* C16: for a non-ignored comment with a direct response the whitelist is
\* asked first, once.  From a whitelisted repo the response is posted, once
\* and as the only comment, and 200 is returned; from any other repo the
\* response is not posted, the "not whitelisted" comment is, and 403 is
\* returned.  The runner is invoked in neither case.
C16_DirectResponseAfterWhitelist ==
  req.response = "yes" =>
    /\ req.pc = "returned"
    /\ req.ignore = "no"
    /\ CountOf("IsWhitelisted") = 1
    /\ req.whitelisted \in {"yes", "no"}
    /\ Comments = 1
    /\ \A op \in {"CreateComment: response", "CreateComment: not whitelisted"} :
         CountOf(op) = 1 => FirstOf("IsWhitelisted") < FirstOf(op)
    /\ req.whitelisted = "yes" =>
         /\ CountOf("CreateComment: response") = 1
         /\ req.status = StatusOK
         /\ req.body = <<"Commenting back on pull request">>
    /\ req.whitelisted = "no" =>
         /\ CountOf("CreateComment: not whitelisted") = 1
         /\ req.status = StatusForbidden
         /\ req.body = <<"Repo not whitelisted">>
    /\ NoRunner

C16_Witness ==
  /\ req.response = "yes"
  /\ req.whitelisted = "no"
  /\ req.pc = "returned"
  /\ req.status = StatusForbidden
\* C17: for an event of a repo that is not whitelisted neither
\* RunCommentCommand, RunAutoplanCommand nor CleanUpPull is invoked and the
\* status is 403; the "not whitelisted" comment is posted exactly once for a
\* non-ignored comment and for an Open event, and not at all for Updated,
\* Closed and Other events.  An ignored comment gets 200 and no comment.
\* Runner and cleanup are invoked for no request whose repo has not been
\* found whitelisted.
C17_NotWhitelistedRejected ==
  /\ req.whitelisted = "no" =>
       /\ req.pc = "returned"
       /\ NoRunner
       /\ CountOf("CleanUpPull") = 0
       /\ req.status = StatusForbidden
       /\ CountOf("CreateComment: response") = 0
       /\ CountOf("CreateComment: not whitelisted") =
            IF req.event = "comment" \/ req.eventType = OpenPullEvent THEN 1 ELSE 0
       /\ req.event = "comment" => req.ignore = "no"
       /\ req.event = "pull" =>
            req.eventType \in {OpenPullEvent, UpdatedPullEvent, ClosedPullEvent, OtherPullEvent}
  /\ req.ignore = "yes" => req.status = StatusOK /\ Comments = 0
  /\ req.whitelisted # "yes" => NoRunner /\ CountOf("CleanUpPull") = 0

C17_Witness ==
  /\ req.whitelisted = "no"
  /\ req.eventType = OpenPullEvent
  /\ req.pc = "returned"
  /\ CountOf("CreateComment: not whitelisted") = 1
  /\ req.status = StatusForbidden
\* The request is an event the runner is to be invoked for: an Open or
\* Updated event, or a comment command without a direct response, of a
\* whitelisted repo.
Accepted ==
  /\ req.whitelisted = "yes"
  /\ \/ req.eventType \in {OpenPullEvent, UpdatedPullEvent}
     \/ req.event = "comment" /\ req.ignore = "no" /\ req.response = "no"

\* The call that invokes the runner: the go statement, or the runner
\* function itself in testing mode.
Invocation == IF req.TestingMode THEN req.run ELSE "go"

\* The runner is invoked for the accepted events and no others, once, after
\* "Processing..." has been written with status 200.
RespondedBeforeRunner ==
  /\ Accepted <=> ~NoRunner
  /\ Accepted =>
       /\ Invocations = 1
       /\ req.run = IF req.event = "comment" THEN "RunCommentCommand"
                                             ELSE "RunAutoplanCommand"
       /\ CountOf("RunCommentCommand") + CountOf("RunAutoplanCommand") = CountOf(req.run)
       /\ CountOf(req.run) = IF req.runner = "returned" THEN 1 ELSE 0
       /\ req.status = StatusOK
       /\ req.body = <<"Processing...">>
       /\ CountOf("Write") = 1
       /\ CountOf("WriteHeader") = 0
       /\ FirstOf("Write") < FirstOf(Invocation)
       /\ req.runner = "returned" => FirstOf("Write") < FirstOf(req.run)
       /\ ~req.TestingMode => req.pc = "returned"

\* C18: for every event that leads to a runner invocation the handler writes
\* "Processing..." with status 200 before it invokes the runner, and invokes
\* it exactly once; no step taken after that, the runner's included, changes
\* the status or the body of the response.
C18_RespondsBeforeRunner ==
  /\ []RespondedBeforeRunner
  /\ [][Accepted => req'.status = req.status /\ req'.body = req.body]_vars

C18_Witness ==
  /\ Accepted
  /\ ~req.TestingMode
  /\ req.runner = "returned"
  /\ req.run = "RunAutoplanCommand"
  /\ req.eventType = UpdatedPullEvent
\* C19: a Closed event of a whitelisted repo calls CleanUpPull exactly once,
\* inside the handler (no goroutine) and before anything is written to the
\* response; the status is 200 when the cleanup succeeds and 500 when it
\* returns an error.  A Closed event never invokes the runner, and
\* CleanUpPull is called for no Open, Updated or Other event.
C19_ClosedCleansUpSynchronously ==
  /\ req.eventType = ClosedPullEvent /\ req.whitelisted = "yes" =>
       /\ req.pc = "returned"
       /\ CountOf("CleanUpPull") = 1
       /\ req.cleaned \in {"yes", "no"}
       /\ \A op \in {"WriteHeader", "Write"} :
            CountOf(op) > 0 => FirstOf("CleanUpPull") < FirstOf(op)
       /\ CountOf("Write") = 1
       /\ req.cleaned = "yes" =>
            /\ req.status = StatusOK
            /\ req.body = <<"Pull request cleaned successfully">>
       /\ req.cleaned = "no" =>
            /\ req.status = StatusInternalServerError
            /\ req.body = <<"Error cleaning pull request">>
  /\ req.eventType = ClosedPullEvent => NoRunner
  /\ req.eventType \in {OpenPullEvent, UpdatedPullEvent, OtherPullEvent} =>
       CountOf("CleanUpPull") = 0 /\ req.cleaned = "?"
  /\ CountOf("CleanUpPull") > 0 =>
       req.eventType = ClosedPullEvent /\ req.whitelisted = "yes"

C19_Witness ==
  /\ req.eventType = ClosedPullEvent
  /\ req.whitelisted = "yes"
  /\ req.cleaned = "no"
  /\ req.pc = "returned"
  /\ req.status = StatusInternalServerError
\* Post has answered the request itself, with 400 and the line msg, and no
\* host handler has been reached.
Rejected(msg) ==
  /\ req.pc = "returned"
  /\ req.host = "?"
  /\ req.status = StatusBadRequest
  /\ req.body = <<msg>>
  /\ req.log = <<"WriteHeader", "Write">>

\* C20 as stated: a request reaches a host handler only when exactly one of
\* the two headers is present; with neither and with both it is rejected
\* with 400 and reaches no handler.
C20_ExactlyOneHeaderDispatched ==
  req.pc # "Post" =>
    /\ req.host # "?" => req.githubHeader # req.gitlabHeader
    /\ req.githubHeader = req.gitlabHeader =>
         req.pc = "returned" /\ req.host = "?" /\ req.status = StatusBadRequest

\* C20: Post looks at X-Github-Event first.  A request that has it, with or
\* without X-Gitlab-Event, goes to the GitHub handler when GitHub is
\* supported and is rejected with 400 when it is not; a request with only
\* X-Gitlab-Event goes to the GitLab handler or is rejected likewise; a
\* request with neither header is rejected with 400 and reaches no handler.
C20_GithubHeaderFirst ==
  req.pc # "Post" =>
    /\ req.githubHeader =>
         IF supportsHost(req, "Github")
           THEN req.host = "Github" /\ CountOf("Validate") <= 1
                                  /\ CountOf("ParseAndValidate") = 0
           ELSE Rejected("Ignoring request since not configured to support GitHub")
    /\ ~req.githubHeader /\ req.gitlabHeader =>
         IF supportsHost(req, "Gitlab")
           THEN req.host = "Gitlab" /\ CountOf("ParseAndValidate") <= 1
                                  /\ CountOf("Validate") = 0
           ELSE Rejected("Ignoring request since not configured to support GitLab")
    /\ ~req.githubHeader /\ ~req.gitlabHeader => Rejected("Ignoring request")
    /\ req.pc \notin {"returned", "handleGithubPost", "handleGitlabPost"} =>
         CountOf(IF req.host = "Github" THEN "Validate" ELSE "ParseAndValidate") = 1

C20_Witness ==
  /\ req.githubHeader
  /\ req.gitlabHeader
  /\ req.host = "Github"
  /\ req.valid = "yes"
  /\ CountOf("Validate") = 1
\* The call that validates the request of the host.
Validation == IF req.host = "Github" THEN "Validate" ELSE "ParseAndValidate"

\* C21: a request that fails the validation against the webhook secret is
\* answered with 400 and nothing else happens: the validation and the two
\* writes of the answer are the only calls made, so no event is parsed, no
\* comment is parsed or created, and neither runner nor cleanup is invoked.
C21_InvalidRequestOnlyRejected ==
  req.valid = "no" =>
    /\ req.pc = "returned"
    /\ req.host \in VCSHosts
    /\ req.status = StatusBadRequest
    /\ req.log = <<Validation, "WriteHeader", "Write">>
    /\ Len(req.body) = 1
    /\ req.event = "?"
    /\ Comments = 0
    /\ CountOf("CommentParser.Parse") = 0
    /\ CountOf("CleanUpPull") = 0
    /\ NoRunner

C21_Witness ==
  /\ req.valid = "no"
  /\ req.host = "Github"
  /\ req.pc = "returned"
  /\ req.status = StatusBadRequest
\* The event type the claim gives an action of a host.
Classified(host, action) ==
  IF host = "Github"
    THEN IF action = "opened" THEN "opened"
         ELSE IF action = "synchronize" THEN "updated"
         ELSE IF action = "closed" THEN "closed"
         ELSE "other"
    ELSE IF action = "open" THEN "opened"
         ELSE IF action = "update" THEN "updated"
         ELSE IF action = "merge" \/ action = "close" THEN "closed"
         ELSE "other"

\* C22: every action of a pull (merge) request event is classified, GitHub
\* opened as Open, synchronize as Updated, closed as Closed, GitLab open as
\* Open, update as Updated, merge and close as Closed, and every other
\* action of the host as Other; so an autoplan is started only by the
\* Open/Updated actions and a cleanup only by the closing actions.
C22_ActionClassification ==
  /\ req.event = "pull" /\ req.action # "?" =>
       /\ req.eventType = Classified(req.host, req.action)
       /\ CountOf("go") + CountOf("RunAutoplanCommand") > 0 =>
            req.action \in (IF req.host = "Github" THEN {"opened", "synchronize"}
                                                   ELSE {"open", "update"})
       /\ CountOf("CleanUpPull") > 0 =>
            req.action \in (IF req.host = "Github" THEN {"closed"}
                                                   ELSE {"merge", "close"})
  /\ req.pc = "handlePullRequestEvent" =>
       /\ req.event = "pull"
       /\ req.action \in Actions
       /\ req.eventType \in {"opened", "updated", "closed", "other"}

C22_Witness ==
  /\ req.host = "Gitlab"
  /\ req.action = "merge"
  /\ req.eventType = ClosedPullEvent
  /\ CountOf("CleanUpPull") = 1
\* What the handler was given: the controller's hosts, the headers, and
\* what the validators, parsers, whitelist and cleaner returned.
Inputs(r) ==
  <<r.SupportedVCSHosts, r.githubHeader, r.gitlabHeader, r.valid, r.event,
    r.parsed, r.action, r.ignore, r.response, r.whitelisted, r.cleaned>>

\* The calls of log that are not part of the runner invocation.
WithoutRunner(log) ==
  LET Other(op) == op \notin {"go", "RunCommentCommand", "RunAutoplanCommand",
                              "runner returns"}
  IN  SelectSeq(log, Other)

\* What the request led to, apart from when the runner runs: the response,
\* the calls made (the comments created among them) and the runner
\* function invoked with its arguments.
Outcome(r) ==
  [status |-> r.status, body |-> r.body, calls |-> WithoutRunner(r.log),
   run |-> r.run, args |-> r.args, invoked |-> r.runner # "none"]

\* C23: an event handled in testing mode, the collaborators returning what
\* they returned outside testing mode, gets the same response status and
\* body, leads to the same calls (VCS comments included) in the same order,
\* and to the same runner function with the same arguments; in testing
\* mode the runner has returned when the handler returns, outside it has
\* only been started in a goroutine of its own.
C23_TestingModeOnlySynchronous ==
  twin # NoRequest /\ req.pc = "returned" /\ Inputs(req) = Inputs(twin) =>
    /\ req.TestingMode /\ ~twin.TestingMode
    /\ Outcome(req) = Outcome(twin)
    /\ req.run # "" =>
         /\ req.runner = "returned"
         /\ SubSeq(req.log, Len(req.log) - 1, Len(req.log)) = <<req.run, "runner returns">>
         /\ twin.runner \in {"spawned", "returned"}
         /\ CountOf("go") = 0
         /\ \E i \in DOMAIN twin.log : twin.log[i] = "go"

C23_Witness ==
  /\ twin # NoRequest
  /\ req.pc = "returned"
  /\ Inputs(req) = Inputs(twin)
  /\ req.run = "RunCommentCommand"
  /\ twin.runner = "spawned"
  /\ req.runner = "returned"
\* C24: every request ID Post makes the log context of a request is 7
\* characters long, on the GitHub path for every X-Github-Delivery value
\* and on the GitLab path, the fallback of a failing rand.Read included.
C24_RequestIDHasSevenCharacters ==
  req.githubHeader \/ req.gitlabHeader => Len(req.reqid) = reqIDSize
(* --------------------- DefaultCommandRunner claims -------------------- *)

\* The calls of the invocation whose first element is op.
CallsOf(op) ==
  SelectSeq(runnerCall.calls, LAMBDA e : e[1] = op)

\* C25: when a call made inside a RunCommentCommand invocation panics (the
\* status updater asked to report Pending, for one), the invocation returns
\* to its caller without the panic, and exactly one comment has been
\* created on the pull request, the one that says "Error: goroutine panic".
C25_PanicReportedNotPropagated ==
  runnerCall.panicked =>
    /\ runnerCall.pc = "returned"
    /\ ~runnerCall.propagated
    /\ runnerCall.comments = <<PanicComment>>
    /\ Len(CallsOf("CreateComment")) = 1
    /\ Len(CallsOf("panic")) = 1

C25_Witness ==
  /\ runnerCall.panicked
  /\ runnerCall.entry = "RunCommentCommand"
  /\ runnerCall.AllowForkPRs
  /\ runnerCall.cmdName = "plan"
  /\ CallsOf("panic") = << <<"panic", "pending">> >>
  /\ runnerCall.pc = "returned"

\* The calls an invocation has made to the project command builder.
BuilderCalls ==
  SelectSeq(runnerCall.calls,
            LAMBDA e : e[1] \in {"BuildAutoplanCommands", "BuildPlanCommand",
                                 "BuildApplyCommand"})

\* The head repo of the pull request is a fork and fork pull requests are
\* not allowed.
ForkRejected == runnerCall.fork = "yes" /\ ~runnerCall.AllowForkPRs

\* C26: a comment command on a fork pull request, AllowForkPRs being false,
\* creates exactly one comment, the fixed fork message, and exits: it
\* reports no commit status, never calls the project command builder and
\* never runs a project.  So it is for a closed pull request too: the fork
\* check comes before the state check.
C26_ForkPullRequestOnlyCommented ==
  (runnerCall.entry = "RunCommentCommand" /\ ForkRejected /\ ~runnerCall.panicked) =>
    /\ runnerCall.pc \in {"fork check", "returned"}
    /\ runnerCall.pc = "returned" => runnerCall.comments = <<ForkComment>>
    /\ runnerCall.pc = "fork check" => runnerCall.comments = <<>>
    /\ runnerCall.statuses = <<>>
    /\ CallsOf("Update") = <<>> /\ CallsOf("UpdateProjectResult") = <<>>
    /\ BuilderCalls = <<>>
    /\ CallsOf("Run") = <<>>

\* A comment command on a closed fork pull request has returned.
C26_Witness ==
  /\ runnerCall.entry = "RunCommentCommand" /\ ForkRejected
  /\ runnerCall.closed = "yes" /\ runnerCall.pc = "returned"
  /\ runnerCall.comments = <<ForkComment>> /\ ~runnerCall.panicked

\* A pre-check that is only logged has failed: the getter of the host is
\* nil, or the fetch or the parse of the pull request has failed.
OnlyLogged ==
  ~runnerCall.getter \/ runnerCall.fetched = "no" \/ runnerCall.parsed = "no"

\* The last collaborator call or logged line of the invocation.
LastCall == runnerCall.calls[Len(runnerCall.calls)]

\* C27: a comment command stops at the first failing pre-check, in the
\* order getter configured, PR fetch, PR parse, fork check, state check.  A
\* nil getter, a failed fetch and a failed parse are only logged; a closed
\* pull request gets exactly one comment, the closed message; in each of
\* these cases no Pending status is reported, the builder is not called and
\* no result comment is posted.
C27_StopsAtFirstFailingPreCheck ==
  (runnerCall.entry = "RunCommentCommand" /\ ~runnerCall.panicked) =>
    /\ ~runnerCall.getter =>
          /\ runnerCall.pc \in {"start", "returned"}
          /\ runnerCall.pc = "returned" =>
                runnerCall.calls = << <<"log", NotConfigured(runnerCall.host)>> >>
    /\ runnerCall.fetched = "no" =>
          /\ runnerCall.pc = "returned" /\ runnerCall.getter
          /\ runnerCall.calls = << <<"GetPullRequest", runnerCall.host>>,
                                   <<"log", FetchError(runnerCall.host)>> >>
    /\ runnerCall.parsed = "no" =>
          /\ runnerCall.pc = "returned" /\ runnerCall.fetched = "yes"
          /\ runnerCall.calls = << <<"GetPullRequest", runnerCall.host>>,
                                   <<"ParsePull", runnerCall.host>>,
                                   <<"log", ParseError>> >>
    /\ OnlyLogged => runnerCall.comments = <<>> /\ runnerCall.fork = "?"
    /\ (runnerCall.closed = "yes" /\ ~ForkRejected) =>
          /\ runnerCall.pc \in {"fork check", "state check", "returned"}
          /\ runnerCall.parsed = "yes"
          /\ runnerCall.pc = "returned" =>
                /\ runnerCall.comments = <<ClosedComment>>
                /\ LastCall = <<"CreateComment", ClosedComment>>
          /\ runnerCall.pc # "returned" => runnerCall.comments = <<>>
    /\ (OnlyLogged \/ ForkRejected \/ runnerCall.closed = "yes") =>
          /\ runnerCall.statuses = <<>> /\ CallsOf("Update") = <<>>
          /\ BuilderCalls = <<>> /\ CallsOf("Run") = <<>>
          /\ CallsOf("CreateComment") =
                SelectSeq(runnerCall.calls,
                          LAMBDA e : e \in {<<"CreateComment", ForkComment>>,
                                            <<"CreateComment", ClosedComment>>})
    /\ CallsOf("Update") # <<>> =>
          /\ runnerCall.getter /\ runnerCall.fetched = "yes"
          /\ runnerCall.parsed = "yes" /\ ~ForkRejected /\ runnerCall.closed = "no"

\* A comment command on a closed GitLab merge request has returned.
C27_Witness ==
  /\ runnerCall.entry = "RunCommentCommand" /\ runnerCall.host = "Gitlab"
  /\ runnerCall.closed = "yes" /\ runnerCall.fork = "no"
  /\ runnerCall.pc = "returned" /\ runnerCall.comments = <<ClosedComment>>
  /\ ~runnerCall.panicked

\* The collaborator calls of an invocation from the Pending status on: the
\* status updates, the builder call, the runs and the comments.
Steps ==
  SelectSeq(runnerCall.calls,
            LAMBDA e : e[1] \notin {"log", "GetPullRequest", "ParsePull"})

\* An invocation has passed every pre-check, has built at least one
\* context and has returned, no call having panicked.
Completed ==
  /\ runnerCall.pc = "returned" /\ ~runnerCall.panicked
  /\ runnerCall.buildOK = "yes" /\ runnerCall.ctxs # <<>>

\* The Pending report, the builder call, one run of every context in the
\* order built, and the two reports of the result.
ReportPending == <<"Update", "Pending", runnerCall.cmdName>>

RunEvery ==
  [i \in 1..Len(runnerCall.ctxs) |->
     <<"Run", runnerCall.cmdName, runnerCall.ctxs[i].RepoRelDir,
       runnerCall.ctxs[i].Workspace>>]

ReportResult ==
  << <<"UpdateProjectResult", runnerCall.cmdName>>,
     <<"CreateComment", ResultComment>> >>

\* One ProjectResult per context, with the dir and workspace of the context.
OneResultPerContext ==
  /\ Len(runnerCall.reported) = Len(runnerCall.ctxs)
  /\ \A i \in DOMAIN runnerCall.ctxs :
       /\ runnerCall.reported[i].RepoRelDir = runnerCall.ctxs[i].RepoRelDir
       /\ runnerCall.reported[i].Workspace = runnerCall.ctxs[i].Workspace

C29_EmptyAutoplanIsSilent ==
  (/\ runnerCall.entry = "RunAutoplanCommand" /\ runnerCall.buildOK = "yes"
   /\ runnerCall.ctxs = <<>>) =>
    /\ runnerCall.pc = "returned" /\ ~runnerCall.panicked
    /\ runnerCall.comments = <<>> /\ CallsOf("CreateComment") = <<>>
    /\ runnerCall.statuses = <<>>
    /\ CallsOf("Update") = <<>> /\ CallsOf("UpdateProjectResult") = <<>>
    /\ CallsOf("Run") = <<>>

\* An autoplan for which the builder found no project has returned.
C29_Witness ==
  /\ runnerCall.entry = "RunAutoplanCommand" /\ runnerCall.buildOK = "yes"
  /\ runnerCall.ctxs = <<>> /\ runnerCall.pc = "returned"
  /\ BuilderCalls = << <<"BuildAutoplanCommands">> >>

(* ------------------------- Recovery claims ---------------------------- *)

\* C30: when a handler function panics beneath the Recovery middleware, the
\* response status of the request is 500, whatever the handler had written
\* to the response before, and the panic goes no further than the
\* middleware.
C30_PanicAnsweredWith500 ==
  req.pc = "recovered" =>
    /\ req.status = StatusInternalServerError
    /\ FirstOf("PANIC") = Len(req.log)

(* ------------------------- implicit claims ---------------------------- *)

\* Clone has returned the directory to a call that still holds its key.
HoldsClone(cl) == cl.cloned /\ cl.pc # "done"

\* C31: whenever Clone has returned the directory for a pull request p,
\* the HEAD of the directory is p.HeadCommit, on the reuse path and after
\* a force-clone that checked out p.Branch alike, also when the branch on
\* the remote has moved on since p was read.
C31_CloneReturnsAtHeadCommit ==
  \A c \in Calls :
    HoldsClone(call[c]) => RevParseHead(disk, call[c].dir) = call[c].head

\* The key and the directory of the default workspace of a call's pull.
DefaultKey(cl) == <<cl.repo, DefaultWorkspace, cl.pull>>

DefaultDir(cl) == cloneDir(cl.repo, cl.pull, DefaultWorkspace)

\* An autoplan asks for the default key and works in the default dir.
AutoplanInDefault ==
  \A c \in Calls :
    call[c].kind = "autoplan" =>
      /\ Key(call[c]) = DefaultKey(call[c])
      /\ call[c].dir \in {<<>>, DefaultDir(call[c])}
      /\ Count(call[c].ops, "TryLock") = 1
      /\ (call[c].acquired /\ call[c].pc # "done") => DefaultKey(call[c]) \in locks

\* A step of an autoplan changes no key but the default one and no
\* directory but the default one.
AutoplanStep ==
  \A c \in Calls :
    (call'[c] # call[c] /\ call'[c].kind = "autoplan") =>
      /\ (locks' \ locks) \cup (locks \ locks') \subseteq {DefaultKey(call'[c])}
      /\ disk' # disk =>
            \A d \in (DOMAIN disk \cup DOMAIN disk') \ {DefaultDir(call'[c])} :
              d \in DOMAIN disk /\ d \in DOMAIN disk' /\ disk'[d] = disk[d]

\* C33: BuildAutoplanCommands only ever locks the key of the workspace
\* "default" and only ever clones into the directory of that workspace,
\* whatever workspaces its contexts name: a context of a config project in
\* another workspace is emitted without that workspace having been locked
\* or cloned, and the directories of other workspaces stay as they were.
C33_AutoplanLocksAndClonesDefaultOnly ==
  []AutoplanInDefault /\ [][AutoplanStep]_vars

\* An autoplan has emitted a context in the workspace "staging", whose
\* directory does not exist, after cloning the default directory.
C33_Witness ==
  \E c \in Calls :
    /\ call[c].kind = "autoplan" /\ call[c].pc = "done" /\ call[c].err = ""
    /\ \E i \in DOMAIN call[c].ctxs : call[c].ctxs[i].Workspace = "staging"
    /\ Count(call[c].ops, "GitClone") = 1
    /\ DefaultDir(call[c]) \in DOMAIN disk
    /\ cloneDir(call[c].repo, call[c].pull, "staging") \notin DOMAIN disk

\* The handler of a Closed event has cleaned the pull request up.
CleanedUp == req.pc = "returned" /\ req.cleaned = "yes"

\* Every autoplan started by the handler of an earlier event has returned.
EarlierFinished ==
  (twin # NoRequest /\ twin.runner = "spawned") => call[1].pc = "done"

\* The working directories of the pull request.
PullDirs(fs) ==
  {d \in DOMAIN fs : IsPrefix(repoPullDir(EventRepo, EventPull), d)}

\* C32: once a Closed event of a pull request has been handled with
\* success and every runner invocation started by an earlier event of the
\* pull request has finished, no working directory of the pull request is
\* on disk: an autoplan started by an earlier Open or Updated event does
\* not clone after the cleanup.
C32_NoWorkingDirAfterCleanup ==
  (CleanedUp /\ EarlierFinished) => PullDirs(disk) = {}

====
